---- MODULE Spec2Model ----
(***************************************************************************)
(* The OTP engine of the medical backend (index.js): the otp_records       *)
(* table, POST /auth/request-otp and POST /auth/verify-otp.  Every await   *)
(* of a handler (one round trip to the store or to the mail transport) is  *)
(* one atomic step; requests of different processes interleave between     *)
(* their awaits, as they do on the node event loop.  A request is taken    *)
(* up where its handler starts: it has passed the rate limiter and the     *)
(* validation middleware in front of the handler.                          *)
(*                                                                         *)
(* Further parts, each with its own specification: the request-otp handler *)
(* of the final production server (SpecFinal), the code generators         *)
(* (SpecGen), the registration page with DatabaseService and EmailService  *)
(* (SpecClient, SpecMail), otpLimiter in front of request-otp (SpecLimit)  *)
(* and POST /auth/signup (SpecSignup, SpecSignupConc), the countdown and   *)
(* the resend button of the page (SpecPage), DatabaseService on its own    *)
(* (SpecService), the six OTP cells (SpecCells), the submission of the     *)
(* code up to the creation of the account (SpecSubmit, SpecSubmitFair),    *)
(* the validation in front of verify-otp (SpecInput) and POST /auth/login  *)
(* (SpecLogin).                                                            *)
(***************************************************************************)
EXTENDS Integers, FiniteSets, Sequences, TLC

\* ------------------------------------------------------------- bounds
\* concurrent requests in flight
MaxProcs == 2
\* records ever inserted (ids 1..MaxIssued)
MaxIssued == 2
\* clock steps taken by the wall clock
MaxTicks == 2
\* wrong guesses (mismatching codes) sent in one run
MaxInvalid == 6
\* awaits (store or mail) that fail in one run
MaxFaults == 1
\* random draws looked at on each side of an end of a generator's range
MaxEdge == 8
\* request-otp requests otpLimiter lets through in one run
MaxPassed == 7
\* request-otp requests otpLimiter rejects in one of its windows
MaxRejected == 2
\* interval timers the page starts in one run
MaxTimers == 3
\* single seconds that pass after each multiple of ClockStep
MaxSeconds == 1

\* ---------------------------------------------------------- constants
OTP_TTL_MS == 5 * 60 * 1000
MAX_OTP_ATTEMPTS == 5

\* The wall clock advances by whole lifetimes: a record issued at t is at
\* its deadline (not yet expired) at t + ClockStep and expired one step on.
ClockStep == OTP_TTL_MS

Procs == 1 .. MaxProcs
Ids == 1 .. MaxIssued
\* normalised e-mail addresses (validateOtpRequest / validateOtpVerification)
Contacts == {"a@x.com", "b@x.com"}
\* String(crypto.randomInt(100000, 999999)): two of the values it returns
genOtp == {"100000", "999998"}
\* the 6-digit numeric candidates a client sends (String(otp).trim() leaves
\* a candidate that passed validateOtpVerification as it is)
Codes == genOtp
\* the final production server's genOtp,
\* String(crypto.randomInt(0, 1000000)).padStart(6, "0"): two of its values
genOtpFinal == {"000123", "999999"}
\* otpLimiter: windowMs and max
otpLimiterWindowMs == 15 * 60 * 1000
otpLimiterMax == 5
\* client addresses (req.ip)
IPs == {"10.0.0.1"}
\* DatabaseService.otpExpiry, in minutes
otpExpiry == 10
\* emailConfig.settings.rateLimit
maxEmails == 100
windowMs == 3600000
\* DatabaseService.generateOTP: two of the values it returns
generateOTP == {"100000", "999999"}
\* crypto.randomBytes(16).toString("hex"): one of the values it returns
Salts == {"5a"}
\* what an await on the store can do: resolve without error, resolve with
\* { error }, or reject (caught by the handler's catch)
Outcomes == {"ok", "error", "throw"}

VARIABLES
    otp_records,  \* the otp_records table: a set of rows
    now,          \* the server's wall clock, in ms
    nextId,       \* the id the store gives the next inserted row
    pc,           \* pc[p]: where process p's handler stands
    req,          \* req[p]: the request p handles (op, contact, otp) and, history
                  \* of a request-otp: the contact's rows when it was taken up
    recs,         \* recs[p]: the rows p's select returned (<< >> or <<rec>>)
    resp,         \* resp[p]: the response p sent (when pc[p] = "done")
    invalidResp,  \* history: invalid_otp answers given per record id
    succeeded,    \* history: record ids a verify answered success for
    faults,       \* history: awaits that failed so far
    mailFailed,   \* history: ids of the rows whose mail the transport refused
    wanted,       \* code generation: a code of the range the generators are to cover
    drawn,        \* code generation: the integer the random source gave (-1: none yet)
    code,         \* code generation: the code the generator returned (<< >>: none yet)
    otpStorage,       \* DatabaseService.otpStorage: contact -> entry or NoOtp
    registrationData, \* MedicalRegistration.registrationData.email ("" before the form is sent)
    currentStep,      \* the page's form: 1 registration, 2 OTP
    rateLimitTracker, \* EmailService.rateLimitTracker: contact -> timestamps
    isConfigured,     \* EmailService.isConfigured
    issued,           \* history: contacts an OTP was issued for
    otpLog,           \* history: per contact, when DatabaseService last sent an OTP
                      \* and the wrong codes entered against it since
    clientResult,     \* the outcome of the last client call
    otpLimiterStore,  \* otpLimiter's store: IP -> hits counted and end of the window
    passedAt,         \* history: the request-otp requests otpLimiter let through
    users,            \* the users table: a set of rows
    otpTimerInterval, \* MedicalRegistration.otpTimerInterval: a timer handle or NoHandle
    intervals,        \* the browser's live interval timers: handle and next due time
    lastHandle,       \* the handle setInterval returned last
    otpExpiryTime,    \* MedicalRegistration.otpExpiryTime, in ms (NoTime: null)
    otpTimerText,     \* otpTimer.textContent: the digits <<m, m, s, s>> (<< >>: as loaded)
    resendDisabled,   \* resendBtn.disabled
    registerPending,  \* handleRegistration awaits productionAPI.requestOTP
    resendResult,     \* what the dbService.resendOTP awaited by resendOTP will resolve with
    verifyPending,    \* handleOTPVerification: "no", or the call it awaits ("verify", "signup")
    otpDigits,        \* the value of each of the six .otp-digit inputs
    focused,          \* the index of the focused .otp-digit input (-1: none)
    otpError          \* the text of #otpError

otpState == <<otp_records, nextId, pc, req, recs, resp, invalidResp, succeeded, faults,
              mailFailed>>
otpVars == <<otpState, now>>
genVars == <<wanted, drawn, code>>
clientVars == <<otpStorage, registrationData, currentStep, rateLimitTracker, isConfigured,
                issued, otpLog, clientResult>>
limiterVars == <<otpLimiterStore, passedAt>>
userVars == <<users>>
timerVars == <<otpTimerInterval, intervals, lastHandle, otpExpiryTime, otpTimerText,
               resendDisabled, registerPending, resendResult, verifyPending>>
cellVars == <<otpDigits, focused, otpError>>
pageVars == <<timerVars, cellVars>>
\* what the handlers of the OTP endpoints leave alone
nonOtpVars == <<genVars, clientVars, limiterVars, userVars, pageVars>>
vars == <<otpVars, genVars, clientVars, limiterVars, userVars, pageVars>>

\* ------------------------------------------------------------ helpers
\* crypto.createHmac("sha256", secret).update(otp + salt).digest("hex"):
\* injective in (otp, salt) up to hash collisions; otp has a fixed width of 6.
hashOtp(otp, salt) == <<"hmac", otp, salt>>

NoReq == [op |-> "none", contact |-> "", otp |-> ""]

Response(status, error) == [status |-> status, error |-> error]

RecordsOf(table, c) == {r \in table : r.contact = c}

\* Newest with the order reversed ({ascending: true}): the oldest row
Newest_Ascending(table, c) ==
    {r \in RecordsOf(table, c) :
        \A r2 \in RecordsOf(table, c) : r2.created_at >= r.created_at}

\* .eq("contact", c).order("created_at", {ascending: false}).limit(1):
\* the rows the select may return; rows with equal created_at tie and the
\* store may return any one of them.
Newest(table, c) ==
    {r \in RecordsOf(table, c) :
        \A r2 \in RecordsOf(table, c) : r2.created_at <= r.created_at}

\* UpdateAttempts with a filter that matches no row: the update is lost
UpdateAttempts_Lost(table, id, n) == table

\* .update(patch).eq("id", id) on the table
UpdateAttempts(table, id, n) ==
    {IF r.id = id THEN [r EXCEPT !.attempts = n] ELSE r : r \in table}

\* UpdateConsumed with a filter that matches no row: the update is lost
UpdateConsumed_Lost(table, id) == table

UpdateConsumed(table, id) ==
    {IF r.id = id THEN [r EXCEPT !.consumed = TRUE] ELSE r : r \in table}

\* DeleteExpired without the filter on expires_at
DeleteExpired_All(table, c, t) == {r \in table : r.contact # c}

\* .delete().eq("contact", c).lt("expires_at", now)
DeleteExpired(table, c, t) ==
    {r \in table : ~(r.contact = c /\ r.expires_at < t)}

\* NewRecord without the lifetime added to expires_at
NewRecord_NoTtl(id, c, otp, salt, t) ==
    [id |-> id, contact |-> c, otp_hash |-> hashOtp(otp, salt), salt |-> salt,
     created_at |-> t, expires_at |-> t,
     consumed |-> FALSE, attempts |-> 0]

NewRecord(id, c, otp, salt, t) ==
    [id |-> id, contact |-> c, otp_hash |-> hashOtp(otp, salt), salt |-> salt,
     created_at |-> t, expires_at |-> t + OTP_TTL_MS,
     consumed |-> FALSE, attempts |-> 0]

RECURSIVE SumOver(_, _)
SumOver(f, S) ==
    IF S = {} THEN 0
    ELSE LET x == CHOOSE y \in S : TRUE IN f[x] + SumOver(f, S \ {x})

\* wrong guesses answered so far or on their way to the attempts update
Guesses ==
    SumOver(invalidResp, Ids) + Cardinality({q \in Procs : pc[q] = "verify_increment"})

Finish(p, r) ==
    /\ pc' = [pc EXCEPT ![p] = "done"]
    /\ resp' = [resp EXCEPT ![p] = r]

\* --------------------------------------------------------------- Init
NoOtp == [otp |-> "", expiryTime |-> 0, attempts |-> 0, stored |-> FALSE]

NoResult == [op |-> "none", email |-> "", status |-> "none", error |-> "none"]

OtpInit ==
    /\ otp_records = {}
    /\ now = 0
    /\ nextId = 1
    /\ pc = [p \in Procs |-> "idle"]
    /\ req = [p \in Procs |-> NoReq]
    /\ recs = [p \in Procs |-> << >>]
    /\ resp = [p \in Procs |-> Response("none", "none")]
    /\ invalidResp = [i \in Ids |-> 0]
    /\ succeeded = {}
    /\ faults = 0
    /\ mailFailed = {}

\* no code generated or asked about
GenIdle ==
    /\ wanted = << >>
    /\ drawn = -1
    /\ code = << >>

\* the page and its services as loaded, the mail service configured or not
ClientLoaded(conf) ==
    /\ otpStorage = [c \in Contacts |-> NoOtp]
    /\ registrationData = ""
    /\ currentStep = 1
    /\ rateLimitTracker = [c \in Contacts |-> << >>]
    /\ isConfigured = conf
    /\ issued = {}
    /\ otpLog = [c \in Contacts |-> [sentAt |-> 0, wrong |-> 0]]
    /\ clientResult = NoResult

Cells == 0 .. 5
NoHandle == 0
NoTime == -1

\* the registration page as constructed; the resend control is disabled in
\* the form as loaded
PageLoaded ==
    /\ otpTimerInterval = NoHandle
    /\ intervals = {}
    /\ lastHandle = 0
    /\ otpExpiryTime = NoTime
    /\ otpTimerText = << >>
    /\ resendDisabled = TRUE
    /\ registerPending = FALSE
    /\ resendResult = NoResult
    /\ verifyPending = "no"
    /\ otpDigits = [i \in Cells |-> ""]
    /\ focused = -1
    /\ otpError = ""

\* otpLimiter has counted nothing
LimiterInit ==
    /\ otpLimiterStore = [ip \in IPs |-> [hits |-> 0, resetTime |-> 0]]
    /\ passedAt = << >>

\* no account yet
UsersInit == users = {}

\* emailConfig as shipped has no SMTP host: EmailService is not configured
Init == OtpInit /\ GenIdle /\ ClientLoaded(FALSE) /\ LimiterInit /\ UsersInit /\ PageLoaded

\* ------------------------------------------------------------ actions
\* pc[p] = "done" is the instant p's response leaves: nothing else happens
\* before p is back to "idle"
Delivered == \A q \in Procs : pc[q] # "done"

Tick ==
    /\ Delivered
    /\ now < MaxTicks * ClockStep
    /\ now' = now + ClockStep
    /\ UNCHANGED <<otp_records, nextId, pc, req, recs, resp, invalidResp, succeeded, faults,
                   mailFailed>>
    /\ UNCHANGED nonOtpVars

\* an await that ends with outcome out; at most MaxFaults of them fail
Await(out) ==
    /\ out # "ok" => faults < MaxFaults
    /\ faults' = IF out = "ok" THEN faults ELSE faults + 1

\* VerifyChecks with the cap compared by > instead of >=
VerifyChecks_CapOffByOne(rec, t) ==
    IF rec.consumed THEN "otp_already_used"
    ELSE IF t > rec.expires_at THEN "otp_expired"
    ELSE IF rec.attempts > MAX_OTP_ATTEMPTS THEN "too_many_attempts"
    ELSE "compare"

\* VerifyChecks with the attempt cap looked at before the expiry
VerifyChecks_CapBeforeExpiry(rec, t) ==
    IF rec.consumed THEN "otp_already_used"
    ELSE IF rec.attempts >= MAX_OTP_ATTEMPTS THEN "too_many_attempts"
    ELSE IF t > rec.expires_at THEN "otp_expired"
    ELSE "compare"

\* VerifyChecks with the expiry looked at before the consumed flag
VerifyChecks_ExpiryFirst(rec, t) ==
    IF t > rec.expires_at THEN "otp_expired"
    ELSE IF rec.consumed THEN "otp_already_used"
    ELSE IF rec.attempts >= MAX_OTP_ATTEMPTS THEN "too_many_attempts"
    ELSE "compare"

\* VerifyChecks with the cap reached one attempt early
VerifyChecks_CapEarly(rec, t) ==
    IF rec.consumed THEN "otp_already_used"
    ELSE IF t > rec.expires_at THEN "otp_expired"
    ELSE IF rec.attempts >= MAX_OTP_ATTEMPTS - 1 THEN "too_many_attempts"
    ELSE "compare"

\* The checks the verify handler makes on the row it fetched, in the order
\* of the code; "compare" when the row passes them all.
VerifyChecks(rec, t) ==
    IF rec.consumed THEN "otp_already_used"
    ELSE IF t > rec.expires_at THEN "otp_expired"
    ELSE IF rec.attempts >= MAX_OTP_ATTEMPTS THEN "too_many_attempts"
    ELSE "compare"

\* POST /auth/verify-otp up to its first write: the select, the checks on
\* the row and the hash comparison.
VerifyFetchStep(p, c, otp, out) ==
    /\ pc[p] = "idle"
    /\ Delivered
    /\ Await(out)
    /\ UNCHANGED mailFailed
    /\ req' = [req EXCEPT ![p] = [op |-> "verify", contact |-> c, otp |-> otp]]
    /\ UNCHANGED <<otp_records, now, nextId, invalidResp, succeeded>>
    /\ IF out = "error" THEN
            /\ recs' = [recs EXCEPT ![p] = << >>]
            /\ Finish(p, Response("error", "database_error"))
       ELSE IF out = "throw" THEN
            /\ recs' = [recs EXCEPT ![p] = << >>]
            /\ Finish(p, Response("error", "internal_error"))
       ELSE IF Newest(otp_records, c) = {} THEN
            /\ recs' = [recs EXCEPT ![p] = << >>]
            /\ Finish(p, Response("error", "otp_not_found"))
       ELSE \E rec \in Newest(otp_records, c) :
            /\ recs' = [recs EXCEPT ![p] = <<rec>>]
            /\ IF VerifyChecks(rec, now) # "compare" THEN
                    Finish(p, Response("error", VerifyChecks(rec, now)))
               ELSE IF hashOtp(otp, rec.salt) # rec.otp_hash THEN
                    /\ Guesses < MaxInvalid
                    /\ pc' = [pc EXCEPT ![p] = "verify_increment"]
                    /\ UNCHANGED resp
               ELSE
                    /\ pc' = [pc EXCEPT ![p] = "verify_consume"]
                    /\ UNCHANGED resp

\* a verify-otp request, the page and the other parts left as they are
VerifyFetch(p, c, otp, out) ==
    /\ VerifyFetchStep(p, c, otp, out)
    /\ UNCHANGED nonOtpVars

\* the attempts update of a mismatch; its result is not looked at
VerifyIncrement(p, out) ==
    /\ pc[p] = "verify_increment"
    /\ Delivered
    /\ Await(out)
    /\ UNCHANGED mailFailed
    /\ LET rec == recs[p][1] IN
        /\ otp_records' = IF out = "ok"
                          THEN UpdateAttempts(otp_records, rec.id, rec.attempts + 1)
                          ELSE otp_records
        /\ IF out = "throw" THEN
                /\ Finish(p, Response("error", "internal_error"))
                /\ UNCHANGED invalidResp
           ELSE
                /\ Finish(p, [status |-> "error", error |-> "invalid_otp",
                              attemptsRemaining |-> MAX_OTP_ATTEMPTS - (rec.attempts + 1)])
                /\ invalidResp' = [invalidResp EXCEPT ![rec.id] = @ + 1]
    /\ UNCHANGED <<now, nextId, req, recs, succeeded>>
    /\ UNCHANGED nonOtpVars

\* the consumed update of a match
VerifyConsume(p, out) ==
    /\ pc[p] = "verify_consume"
    /\ Delivered
    /\ Await(out)
    /\ UNCHANGED mailFailed
    /\ LET rec == recs[p][1] IN
        /\ otp_records' = IF out = "ok"
                          THEN UpdateConsumed(otp_records, rec.id)
                          ELSE otp_records
        /\ IF out = "error" THEN
                /\ Finish(p, Response("error", "database_error"))
                /\ UNCHANGED succeeded
           ELSE IF out = "throw" THEN
                /\ Finish(p, Response("error", "internal_error"))
                /\ UNCHANGED succeeded
           ELSE
                /\ Finish(p, Response("success", "none"))
                /\ succeeded' = succeeded \cup {rec.id}
    /\ UNCHANGED <<now, nextId, req, recs, invalidResp>>
    /\ UNCHANGED nonOtpVars

\* POST /auth/request-otp, first await: the clean-up of the contact's
\* expired rows; its result is not looked at
RequestDeleteStep(p, c, out) ==
    /\ pc[p] = "idle"
    /\ Delivered
    /\ Await(out)
    /\ UNCHANGED mailFailed
    /\ req' = [req EXCEPT ![p] = [op |-> "request", contact |-> c, otp |-> "",
                                  before |-> RecordsOf(otp_records, c)]]
    /\ recs' = [recs EXCEPT ![p] = << >>]
    /\ otp_records' = IF out = "ok" THEN DeleteExpired(otp_records, c, now)
                      ELSE otp_records
    /\ IF out = "throw"
       THEN Finish(p, Response("error", "internal_error"))
       ELSE /\ pc' = [pc EXCEPT ![p] = "request_insert"]
            /\ UNCHANGED resp
    /\ UNCHANGED <<now, nextId, invalidResp, succeeded>>

\* a request-otp that has passed otpLimiter enters its handler; at most
\* MaxIssued rows are inserted in one run
RequestDelete(p, c, out) ==
    /\ nextId + Cardinality({q \in Procs : pc[q] = "request_insert"}) <= MaxIssued
    /\ RequestDeleteStep(p, c, out)
    /\ UNCHANGED nonOtpVars

\* genOtp, the salt, the hash and the insert
RequestInsert(p, otp, salt, out) ==
    /\ pc[p] = "request_insert"
    /\ Delivered
    /\ Await(out)
    /\ UNCHANGED mailFailed
    /\ IF out = "ok" THEN
            /\ otp_records' = otp_records \cup
                    {NewRecord(nextId, req[p].contact, otp, salt, now)}
            /\ nextId' = nextId + 1
            /\ req' = [req EXCEPT ![p].otp = otp]
            /\ recs' = [recs EXCEPT ![p] =
                    <<NewRecord(nextId, req[p].contact, otp, salt, now)>>]
            /\ pc' = [pc EXCEPT ![p] = "request_send"]
            /\ UNCHANGED resp
       ELSE
            /\ Finish(p, Response("error",
                    IF out = "error" THEN "database_error" ELSE "internal_error"))
            /\ UNCHANGED <<otp_records, nextId, req, recs>>
    /\ UNCHANGED <<now, invalidResp, succeeded>>
    /\ UNCHANGED nonOtpVars

\* RequestSend that takes the row back when the mail fails
RequestSend_Rollback(p, out) ==
    /\ pc[p] = "request_send"
    /\ Delivered
    /\ out # "error"
    /\ Await(out)
    /\ mailFailed' = IF out = "ok" THEN mailFailed ELSE mailFailed \cup {recs[p][1].id}
    /\ otp_records' = IF out = "ok" THEN otp_records
                      ELSE {r \in otp_records : r.id # recs[p][1].id}
    /\ IF out = "ok"
       THEN Finish(p, [status |-> "success", error |-> "none",
                       expiresIn |-> OTP_TTL_MS \div 1000])
       ELSE Finish(p, Response("error", "email_error"))
    /\ UNCHANGED <<now, nextId, req, recs, invalidResp, succeeded>>
    /\ UNCHANGED nonOtpVars

\* RequestSend that reports the lifetime in milliseconds
RequestSend_ExpiresInMs(p, out) ==
    /\ pc[p] = "request_send"
    /\ Delivered
    /\ out # "error"
    /\ Await(out)
    /\ mailFailed' = IF out = "ok" THEN mailFailed ELSE mailFailed \cup {recs[p][1].id}
    /\ IF out = "ok"
       THEN Finish(p, [status |-> "success", error |-> "none",
                       expiresIn |-> OTP_TTL_MS])
       ELSE Finish(p, Response("error", "email_error"))
    /\ UNCHANGED <<otp_records, now, nextId, req, recs, invalidResp, succeeded>>
    /\ UNCHANGED nonOtpVars

\* sendEmailOtp and the response
RequestSend(p, out) ==
    /\ pc[p] = "request_send"
    /\ Delivered
    /\ out # "error"
    /\ Await(out)
    /\ mailFailed' = IF out = "ok" THEN mailFailed ELSE mailFailed \cup {recs[p][1].id}
    /\ IF out = "ok"
       THEN Finish(p, [status |-> "success", error |-> "none",
                       expiresIn |-> OTP_TTL_MS \div 1000])
       ELSE Finish(p, Response("error", "email_error"))
    /\ UNCHANGED <<otp_records, now, nextId, req, recs, invalidResp, succeeded>>
    /\ UNCHANGED nonOtpVars

\* the response has been sent; the process takes the next request
Return(p) ==
    /\ pc[p] = "done"
    /\ pc' = [pc EXCEPT ![p] = "idle"]
    /\ req' = [req EXCEPT ![p] = NoReq]
    /\ recs' = [recs EXCEPT ![p] = << >>]
    /\ resp' = [resp EXCEPT ![p] = Response("none", "none")]
    /\ UNCHANGED <<otp_records, now, nextId, invalidResp, succeeded, faults, mailFailed>>
    /\ UNCHANGED nonOtpVars

\* one step of process p, its requests being for contacts of the set C
Step(p, C, O) ==
    \/ \E c \in C, otp \in Codes, out \in O : VerifyFetch(p, c, otp, out)
    \/ \E out \in O : VerifyIncrement(p, out)
    \/ \E out \in O : VerifyConsume(p, out)
    \/ \E c \in C, out \in O : RequestDelete(p, c, out)
    \/ \E otp \in genOtp, salt \in Salts, out \in O : RequestInsert(p, otp, salt, out)
    \/ \E out \in O : RequestSend(p, out)
    \/ Return(p)

\* Requests of MaxProcs processes interleave at their awaits.  Requests for
\* different contacts share no row (every select, update and delete is
\* keyed by the contact or by the id of a row of the contact), so the
\* interleavings are those of requests for one contact.
Next ==
    \/ Tick
    \/ \E p \in Procs : Step(p, {"a@x.com"}, {"ok"})

Spec == Init /\ [][Next]_vars

\* One request at a time, for any of the contacts: each handler runs to its
\* response before the next request is taken.
NextSeq ==
    \/ Tick
    \/ Step(1, Contacts, Outcomes)

SpecSeq == Init /\ [][NextSeq]_vars

\* ------------------------------------- the final production server
\* POST /auth/request-otp of the final production server up to the mail:
\* no clean-up, genOtp, the salt, the hash and the insert, whose result is
\* not looked at (a rejection goes to the handler's catch)
FinalRequestInsert(p, c, otp, salt, out) ==
    /\ pc[p] = "idle"
    /\ Delivered
    /\ nextId <= MaxIssued
    /\ Await(out)
    /\ UNCHANGED mailFailed
    /\ req' = [req EXCEPT ![p] = [op |-> "final_request", contact |-> c, otp |-> otp]]
    /\ recs' = [recs EXCEPT ![p] = << >>]
    /\ IF out = "ok" THEN
            /\ otp_records' = otp_records \cup {NewRecord(nextId, c, otp, salt, now)}
            /\ nextId' = nextId + 1
       ELSE UNCHANGED <<otp_records, nextId>>
    /\ IF out = "throw"
       THEN Finish(p, Response("error", "internal_error"))
       ELSE /\ pc' = [pc EXCEPT ![p] = "final_send"]
            /\ UNCHANGED resp
    /\ UNCHANGED <<now, invalidResp, succeeded>>
    /\ UNCHANGED nonOtpVars

\* sendEmailOtp and the response; a failed send goes to the same catch
FinalRequestSend(p, out) ==
    /\ pc[p] = "final_send"
    /\ Delivered
    /\ out # "error"
    /\ Await(out)
    /\ UNCHANGED mailFailed
    /\ IF out = "ok"
       THEN Finish(p, [status |-> "success", error |-> "none",
                       expiresIn |-> OTP_TTL_MS \div 1000])
       ELSE Finish(p, Response("error", "internal_error"))
    /\ UNCHANGED <<otp_records, now, nextId, req, recs, invalidResp, succeeded>>
    /\ UNCHANGED nonOtpVars

\* One request-otp at a time on the final production server.
NextFinal ==
    \/ Tick
    \/ \E c \in Contacts, otp \in genOtpFinal, salt \in Salts, out \in Outcomes :
            FinalRequestInsert(1, c, otp, salt, out)
    \/ \E out \in Outcomes : FinalRequestSend(1, out)
    \/ Return(1)

SpecFinal == Init /\ [][NextFinal]_vars

\* ------------------------------------------------- code generation
\* crypto.randomInt(min, max): an integer n with min <= n < max
randomInt(min, max) == min .. (max - 1)

\* Math.floor(Math.random() * m) for Math.random() in [0, 1)
MathRandomTimes(m) == 0 .. (m - 1)

\* String(n), n.toString() for a natural number: its decimal digits, most
\* significant first, without leading zeros
RECURSIVE toString(_)
toString(n) == IF n < 10 THEN <<n>> ELSE toString(n \div 10) \o <<n % 10>>

\* the draws of a generator that are looked at: those within MaxEdge of an
\* end of the range 0 .. 999999 or of the first 6-digit number
Window ==
    {n \in 0 .. 1000000 + MaxEdge :
        \/ n <= MaxEdge
        \/ 100000 - MaxEdge <= n /\ n <= 100000 + MaxEdge
        \/ 999999 - MaxEdge <= n}

\* zero-padded 6-digit codes the generators are asked about
Pad6(n) ==
    <<(n \div 100000) % 10, (n \div 10000) % 10, (n \div 1000) % 10,
      (n \div 100) % 10, (n \div 10) % 10, n % 10>>

CodeSamples == {0, 1, 123, 99999, 100000, 100001, 500000, 999998, 999999}

\* the state before a code is generated, for each code asked about
InitGen ==
    /\ OtpInit
    /\ LimiterInit
    /\ UsersInit
    /\ ClientLoaded(FALSE)
    /\ PageLoaded
    /\ wanted \in {Pad6(n) : n \in CodeSamples}
    /\ drawn = -1
    /\ code = << >>

\* genOtp of index.js: String(crypto.randomInt(100000, 999999))
GenOtp ==
    /\ \E n \in Window :
        /\ n \in randomInt(100000, 999999)
        /\ drawn' = n
        /\ code' = toString(n)
    /\ UNCHANGED <<otpVars, clientVars, limiterVars, userVars, pageVars, wanted>>

\* DatabaseService.generateOTP:
\* Math.floor(100000 + Math.random() * 900000).toString()
GenerateOTP ==
    /\ \E n \in Window :
        /\ n - 100000 \in MathRandomTimes(900000)
        /\ drawn' = n
        /\ code' = toString(n)
    /\ UNCHANGED <<otpVars, clientVars, limiterVars, userVars, pageVars, wanted>>

NextGen == GenOtp \/ GenerateOTP

SpecGen == InitGen /\ [][NextGen]_vars

\* ------------------------------------- the registration page's services
\* the callbacks of the interval timers run when they are due: the clock
\* moves on once those due have run
NoneDue == \A t \in intervals : now < t.due

\* the page's wall clock passes; it runs one step further than the
\* server's so that a 10-minute client OTP can be seen expired
ClientTick ==
    /\ now < (MaxTicks + 1) * ClockStep
    /\ NoneDue
    /\ now' = now + ClockStep
    /\ UNCHANGED <<otpState, genVars, clientVars, limiterVars, userVars, pageVars>>

Result(op, e, status, error) == [op |-> op, email |-> e, status |-> status, error |-> error]

\* checkRateLimit's clean-up: the timestamps still inside the window (a key
\* left with none is deleted, which reads as the empty list)
CleanOld(tracker, t) ==
    [k \in Contacts |-> SelectSeq(tracker[k], LAMBDA ts : t - ts < windowMs)]

\* EmailService.sendOTPEmail -> checkRateLimit(email), on the cleaned tracker
checkRateLimit(tracker, e, t) == Len(CleanOld(tracker, t)[e]) < maxEmails

\* EmailService.sendOTPEmail as DatabaseService.sendOTPEmail sees it; smtp
\* is what the fetch of sendSMTPEmail does.  Every failure (the rate limit
\* included) is caught and answered by simulateEmailSending, so the call
\* always reports success.  via: how the code left; smtp: whether the SMTP
\* endpoint was contacted; limited: whether the rate limit was hit.
sendOTPEmail(tracker, conf, e, t, smtp) ==
    IF ~conf THEN
        [tracker |-> tracker, via |-> "simulation", smtp |-> FALSE, limited |-> FALSE]
    ELSE IF ~checkRateLimit(tracker, e, t) THEN
        [tracker |-> CleanOld(tracker, t), via |-> "simulation", smtp |-> FALSE,
         limited |-> TRUE]
    ELSE IF smtp = "ok" THEN
        [tracker |-> [CleanOld(tracker, t) EXCEPT ![e] = Append(@, t)],
         via |-> "smtp", smtp |-> TRUE, limited |-> FALSE]
    ELSE
        [tracker |-> CleanOld(tracker, t), via |-> "simulation", smtp |-> TRUE,
         limited |-> FALSE]

\* what a send or resend reports
Sent(op, e, mail, expiry) ==
    [op |-> op, email |-> e, status |-> "success", error |-> "none",
     expiryTime |-> expiry, via |-> mail.via, smtp |-> mail.smtp, limited |-> mail.limited]

\* the server process that answers the page's requests
PageProc == 1

\* n.toString().padStart(2, '0')
Pad2(n) == IF Len(toString(n)) < 2 THEN <<0>> \o toString(n) ELSE toString(n)

\* the text of the countdown for timeLeft ms: minutes ":" seconds
TimerText(timeLeft) ==
    <<Pad2(timeLeft \div 60000), Pad2((timeLeft % 60000) \div 1000)>>

\* clearInterval(h) on the browser's timers (clearing no handle or a dead
\* one does nothing)
clearInterval(timers, h) == {t \in timers : t.id # h}

\* setInterval(callback, 1000) at time t: the timer with handle h, first due
\* one period later
setInterval(timers, h, t) == timers \cup {[id |-> h, due |-> t + 1000]}

\* clearOTPInputs: every cell emptied, the first one focused
ClearOTPInputs ==
    /\ otpDigits' = [i \in Cells |-> ""]
    /\ focused' = 0

\* startOTPTimer, otpExpiryTime being set: a new interval timer whose
\* handle replaces the one held in otpTimerInterval
StartOTPTimer(timers) ==
    /\ lastHandle < MaxTimers
    /\ lastHandle' = lastHandle + 1
    /\ otpTimerInterval' = lastHandle + 1
    /\ intervals' = setInterval(timers, lastHandle + 1, now)

\* MedicalRegistration.handleRegistration (the form being valid) up to its
\* await: the data is kept and the OTP is requested from the server through
\* productionAPI; the request enters the handler of request-otp, whose
\* first await ends with out.  The register button is disabled meanwhile.
HandleRegistration(e, out) ==
    /\ currentStep = 1
    /\ ~registerPending
    /\ registrationData' = e
    /\ registerPending' = TRUE
    /\ nextId <= MaxIssued
    /\ RequestDeleteStep(PageProc, e, out)
    /\ UNCHANGED <<genVars, limiterVars, userVars, cellVars>>
    /\ UNCHANGED <<otpStorage, currentStep, rateLimitTracker, isConfigured, issued, otpLog,
                   clientResult>>
    /\ UNCHANGED <<otpTimerInterval, intervals, lastHandle, otpExpiryTime, otpTimerText,
                   resendDisabled, resendResult, verifyPending>>

\* handleRegistration after its await, the response of request-otp having
\* arrived: on success the deadline is taken from expiresIn, the OTP form
\* is shown and the countdown started; a failure is shown on the form
HandleRegistrationDone ==
    /\ registerPending
    /\ pc[PageProc] = "done"
    /\ req[PageProc].op = "request"
    /\ registerPending' = FALSE
    /\ IF resp[PageProc].status = "success" THEN
            /\ otpExpiryTime' = now + resp[PageProc].expiresIn * 1000
            /\ currentStep' = 2
            /\ focused' = 0
            /\ StartOTPTimer(intervals)
            /\ issued' = issued \cup {registrationData}
            /\ clientResult' = [op |-> "register", email |-> registrationData,
                                status |-> "success", error |-> "none",
                                expiresIn |-> resp[PageProc].expiresIn]
       ELSE
            /\ clientResult' = Result("register", registrationData, "error", "request_failed")
            /\ UNCHANGED <<currentStep, issued, otpExpiryTime, focused,
                           lastHandle, otpTimerInterval, intervals>>
    /\ pc' = [pc EXCEPT ![PageProc] = "idle"]
    /\ req' = [req EXCEPT ![PageProc] = NoReq]
    /\ recs' = [recs EXCEPT ![PageProc] = << >>]
    /\ resp' = [resp EXCEPT ![PageProc] = Response("none", "none")]
    /\ UNCHANGED <<otp_records, now, nextId, invalidResp, succeeded, faults, mailFailed>>
    /\ UNCHANGED <<genVars, limiterVars, userVars>>
    /\ UNCHANGED <<otpStorage, registrationData, rateLimitTracker, isConfigured, otpLog>>
    /\ UNCHANGED <<otpTimerText, resendDisabled, resendResult, verifyPending, otpDigits,
                   otpError>>

\* MedicalRegistration.goBackToRegistration
GoBackToRegistration ==
    /\ currentStep = 2
    /\ currentStep' = 1
    /\ intervals' = clearInterval(intervals, otpTimerInterval)
    /\ otpTimerInterval' = NoHandle
    /\ ClearOTPInputs
    /\ otpError' = ""
    /\ UNCHANGED <<otpVars, genVars, limiterVars, userVars, otpStorage, registrationData,
                   rateLimitTracker, isConfigured, issued, otpLog, clientResult>>
    /\ UNCHANGED <<lastHandle, otpExpiryTime, otpTimerText, resendDisabled,
                   registerPending, resendResult, verifyPending>>

\* the callback of the interval timer with handle h, when it is due.  It
\* reads the page's fields, not its own handle: on expiry clearOTPTimer
\* clears the timer otpTimerInterval holds.
TimerTick(h) ==
    \E t \in intervals :
        /\ t.id = h
        /\ now >= t.due
        /\ LET timeLeft == otpExpiryTime - now
               fired == (intervals \ {t}) \cup {[id |-> h, due |-> now + 1000]} IN
           IF timeLeft <= 0 THEN
                /\ intervals' = clearInterval(fired, otpTimerInterval)
                /\ otpTimerInterval' = NoHandle
                /\ resendDisabled' = FALSE
                /\ otpTimerText' = <<<<0, 0>>, <<0, 0>>>>
           ELSE
                /\ intervals' = fired
                /\ otpTimerText' = TimerText(timeLeft)
                /\ UNCHANGED <<otpTimerInterval, resendDisabled>>
        /\ UNCHANGED <<otpVars, genVars, clientVars, limiterVars, userVars, cellVars>>
        /\ UNCHANGED <<lastHandle, otpExpiryTime, registerPending, resendResult,
                       verifyPending>>

\* one second passes on the wall clock; at most MaxSeconds of them after
\* each multiple of ClockStep
SecondPasses ==
    /\ now % ClockStep < MaxSeconds * 1000
    /\ NoneDue
    /\ now' = now + 1000
    /\ UNCHANGED <<otpState, genVars, clientVars, limiterVars, userVars, pageVars>>

\* DatabaseService.sendRegistrationOTP
SendRegistrationOTP(e, otp, smtp) ==
    LET expiry == now + otpExpiry * 60 * 1000
        mail == sendOTPEmail(rateLimitTracker, isConfigured, e, now, smtp) IN
    /\ otpStorage' = [otpStorage EXCEPT ![e] =
            [otp |-> otp, expiryTime |-> expiry, attempts |-> 0, stored |-> TRUE]]
    /\ rateLimitTracker' = mail.tracker
    /\ issued' = issued \cup {e}
    /\ otpLog' = [otpLog EXCEPT ![e] = [sentAt |-> now, wrong |-> 0]]
    /\ clientResult' = Sent("send", e, mail, expiry)
    /\ UNCHANGED <<otpVars, genVars, limiterVars, userVars, pageVars, registrationData, currentStep, isConfigured>>

\* verifyRegistrationOTP without the check of the attempts
VerifyRegistrationOTP_NoCap(e, enteredOTP, out) ==
    LET otpData == otpStorage[e] IN
    /\ IF ~otpData.stored THEN
            /\ clientResult' = Result("verify", e, "error", "otp_not_found")
            /\ UNCHANGED otpStorage
       ELSE IF now > otpData.expiryTime THEN
            /\ otpStorage' = [otpStorage EXCEPT ![e] = NoOtp]
            /\ clientResult' = Result("verify", e, "error", "otp_expired")
       ELSE IF otpData.otp # enteredOTP THEN
            /\ otpStorage' = [otpStorage EXCEPT ![e].attempts = @ + 1]
            /\ clientResult' = [op |-> "verify", email |-> e, status |-> "error",
                                error |-> "invalid_otp",
                                attemptsRemaining |-> 3 - (otpData.attempts + 1)]
       ELSE IF out = "ok" THEN
            /\ otpStorage' = [otpStorage EXCEPT ![e] = NoOtp]
            /\ clientResult' = Result("verify", e, "success", "none")
       ELSE
            /\ clientResult' = Result("verify", e, "error", "signup_error")
            /\ UNCHANGED otpStorage
    /\ otpLog' = IF otpData.stored /\ otpData.otp # enteredOTP
                  THEN [otpLog EXCEPT ![e].wrong = @ + 1]
                  ELSE otpLog
    /\ UNCHANGED <<otpVars, genVars, limiterVars, userVars, pageVars, registrationData, currentStep, rateLimitTracker,
                   isConfigured, issued>>

\* DatabaseService.verifyRegistrationOTP; out is what signUp does
VerifyRegistrationOTP(e, enteredOTP, out) ==
    LET otpData == otpStorage[e] IN
    /\ IF ~otpData.stored THEN
            /\ clientResult' = Result("verify", e, "error", "otp_not_found")
            /\ UNCHANGED otpStorage
       ELSE IF now > otpData.expiryTime THEN
            /\ otpStorage' = [otpStorage EXCEPT ![e] = NoOtp]
            /\ clientResult' = Result("verify", e, "error", "otp_expired")
       ELSE IF otpData.attempts >= 3 THEN
            /\ otpStorage' = [otpStorage EXCEPT ![e] = NoOtp]
            /\ clientResult' = Result("verify", e, "error", "too_many_attempts")
       ELSE IF otpData.otp # enteredOTP THEN
            /\ otpStorage' = [otpStorage EXCEPT ![e].attempts = @ + 1]
            /\ clientResult' = [op |-> "verify", email |-> e, status |-> "error",
                                error |-> "invalid_otp",
                                attemptsRemaining |-> 3 - (otpData.attempts + 1)]
       ELSE IF out = "ok" THEN
            /\ otpStorage' = [otpStorage EXCEPT ![e] = NoOtp]
            /\ clientResult' = Result("verify", e, "success", "none")
       ELSE
            /\ clientResult' = Result("verify", e, "error", "signup_error")
            /\ UNCHANGED otpStorage
    /\ otpLog' = IF otpData.stored /\ otpData.otp # enteredOTP
                  THEN [otpLog EXCEPT ![e].wrong = @ + 1]
                  ELSE otpLog
    /\ UNCHANGED <<otpVars, genVars, limiterVars, userVars, pageVars, registrationData, currentStep, rateLimitTracker,
                   isConfigured, issued>>

\* DatabaseService.resendOTP(e), reported under the name op: what it
\* leaves in otpStorage and in the tracker and what it reports
ResendCall(op, e, otp, smtp) ==
    LET otpData == otpStorage[e]
        expiry == now + otpExpiry * 60 * 1000
        mail == sendOTPEmail(rateLimitTracker, isConfigured, e, now, smtp) IN
    IF ~otpData.stored THEN
        /\ clientResult' = Result(op, e, "error", "no_pending_registration")
        /\ UNCHANGED <<otpStorage, rateLimitTracker, otpLog>>
    ELSE
        /\ otpStorage' = [otpStorage EXCEPT ![e] =
                [otp |-> otp, expiryTime |-> expiry, attempts |-> 0, stored |-> TRUE]]
        /\ rateLimitTracker' = mail.tracker
        /\ otpLog' = [otpLog EXCEPT ![e] = [sentAt |-> now, wrong |-> 0]]
        /\ clientResult' = Sent(op, e, mail, expiry)

\* DatabaseService.resendOTP called for any contact
ResendOTP(e, otp, smtp) ==
    /\ ResendCall("resend", e, otp, smtp)
    /\ UNCHANGED <<otpVars, genVars, limiterVars, userVars, pageVars, registrationData, currentStep, isConfigured, issued>>

\* MedicalRegistration.resendOTP up to its await: the click on the resend
\* control (a disabled control gives no click) disables it and calls
\* dbService.resendOTP, which rewrites the stored entry before it awaits
\* the mail.  Without a stored entry the call is rejected at once: the
\* error is shown and the control enabled again.
PageResendOTP(otp, smtp) ==
    /\ currentStep = 2
    /\ ~resendDisabled
    /\ resendResult = NoResult
    /\ ResendCall("page_resend", registrationData, otp, smtp)
    /\ IF otpStorage[registrationData].stored THEN
            /\ resendDisabled' = TRUE
            /\ resendResult' = clientResult'
            /\ UNCHANGED otpError
       ELSE
            /\ resendDisabled' = FALSE
            /\ otpError' = "No pending registration found for this email."
            /\ UNCHANGED resendResult
    /\ UNCHANGED <<otpVars, genVars, limiterVars, userVars, registrationData, currentStep,
                   isConfigured, issued>>
    /\ UNCHANGED <<otpTimerInterval, intervals, lastHandle, otpExpiryTime, otpTimerText,
                   registerPending, verifyPending, otpDigits, focused>>

\* resendOTP after its await, the resend having succeeded: the deadline is
\* the one dbService reports, the cells are emptied, the countdown is
\* started, and the finally block takes the loading state off the control
PageResendDone ==
    /\ resendResult # NoResult
    /\ otpExpiryTime' = resendResult.expiryTime
    /\ ClearOTPInputs
    /\ StartOTPTimer(intervals)
    /\ otpError' = ""
    /\ resendDisabled' = FALSE
    /\ resendResult' = NoResult
    /\ UNCHANGED <<otpVars, genVars, clientVars, limiterVars, userVars>>
    /\ UNCHANGED <<otpTimerText, registerPending, verifyPending>>

\* the registration page used for the e-mail a@x.com, the server answering
\* its requests
PageSteps ==
    \/ \E out \in {"ok", "throw"} : HandleRegistration("a@x.com", out)
    \/ \E otp \in genOtp : RequestInsert(PageProc, otp, "5a", "ok")
    \/ RequestSend(PageProc, "ok")
    \/ HandleRegistrationDone
    \/ GoBackToRegistration
    \/ \E h \in 1 .. MaxTimers : TimerTick(h)
    \/ \E smtp \in {"ok", "throw"} : PageResendOTP("100000", smtp)
    \/ PageResendDone

\* The page and the calls of DatabaseService for its e-mail in one browser.
NextClient ==
    \/ ClientTick
    \/ PageSteps
    \/ \E smtp \in {"ok", "throw"} : SendRegistrationOTP("a@x.com", "100000", smtp)
    \/ \E otp \in generateOTP, out \in {"ok", "throw"} :
            VerifyRegistrationOTP("a@x.com", otp, out)
    \/ \E smtp \in {"ok", "throw"} : ResendOTP("a@x.com", "100000", smtp)

SpecClient == Init /\ [][NextClient]_vars

\* The page second by second; DatabaseService may have been given an entry
\* for the e-mail through sendRegistrationOTP.
NextPage ==
    \/ ClientTick
    \/ SecondPasses
    \/ PageSteps
    \/ SendRegistrationOTP("a@x.com", "100000", "ok")

SpecPage == Init /\ [][NextPage]_vars

\* ------------------------------------------------ the six OTP cells
\* the characters the regular expression \d matches
Digits == {"0", "1", "2", "3", "4", "5", "6", "7", "8", "9"}

\* /^\d$/.test(value)
IsSingleDigit(value) == value \in Digits

\* text.replace(/\D/g, ''), a text being the sequence of its characters
\* and the result the sequence of those that \d matches
StripNonDigits_Keep(text) == text

StripNonDigits(text) == SelectSeq(text, LAMBDA ch : ch \in Digits)

\* the cells, the focus and the error text as the handlers see them
CellState == [otpDigits |-> otpDigits, focused |-> focused, otpError |-> otpError]

\* handleOTPInput without the test for a digit
handleOTPInput_AnyValue(s, i, value) ==
    [otpDigits |-> [s.otpDigits EXCEPT ![i] = value],
     focused |-> IF value # "" /\ i < 5 THEN i + 1 ELSE s.focused,
     otpError |-> ""]

\* handleOTPInput(e, index), e.target.value being value: what the browser
\* left in cell i after the edit that raised the event
handleOTPInput(s, i, value) ==
    IF ~IsSingleDigit(value) /\ value # "" THEN
        [s EXCEPT !.otpDigits[i] = ""]
    ELSE
        [otpDigits |-> [s.otpDigits EXCEPT ![i] = value],
         focused |-> IF value # "" /\ i < 5 THEN i + 1 ELSE s.focused,
         otpError |-> ""]

\* handleOTPKeydown whose ArrowLeft empties the cell it moves to
handleOTPKeydown_ArrowClears(s, i, key) ==
    IF key = "ArrowLeft" /\ i > 0 THEN
        [s EXCEPT !.focused = i - 1, !.otpDigits[i - 1] = ""]
    ELSE IF key = "ArrowRight" /\ i < 5 THEN
        [s EXCEPT !.focused = i + 1]
    ELSE s

\* handleOTPKeydown(e, index), e.key being key
handleOTPKeydown(s, i, key) ==
    IF key = "Backspace" /\ s.otpDigits[i] = "" /\ i > 0 THEN
        [s EXCEPT !.focused = i - 1, !.otpDigits[i - 1] = ""]
    ELSE IF key = "ArrowLeft" /\ i > 0 THEN
        [s EXCEPT !.focused = i - 1]
    ELSE IF key = "ArrowRight" /\ i < 5 THEN
        [s EXCEPT !.focused = i + 1]
    ELSE s

\* handleOTPPaste(e), the clipboard holding text
handleOTPPaste(s, text) ==
    LET pastedData == StripNonDigits(text) IN
    IF Len(pastedData) = 6 THEN
        [otpDigits |-> [k \in Cells |-> pastedData[k + 1]],
         focused |-> 5,
         otpError |-> ""]
    ELSE s

\* getOTPCode: the values of the cells joined
getOTPCode(digits) ==
    digits[0] \o digits[1] \o digits[2] \o digits[3] \o digits[4] \o digits[5]

\* what an edit can leave in a cell: nothing, a digit, another character,
\* two characters
InputValues == {"", "7", "a", "12"}

Keys == {"Backspace", "ArrowLeft", "ArrowRight", "Enter"}

\* clipboard texts
PasteSamples ==
    { <<"1", "2", "-", "3", "4", "-", "5", "6">>,
      <<"1", "0", "0", "0", "0", "0">>,
      <<" ", "9", "9", "9", "9", "9", "9", "x">>,
      <<"1", "2", "3", "4", "5">>,
      <<"1", "2", "3", "4", "5", "6", "7">>,
      <<"a", "b", "c", "d", "e", "f">>,
      << >> }

\* the handlers' result is what the page shows
Shows(r) ==
    /\ otpDigits' = r.otpDigits
    /\ focused' = r.focused
    /\ otpError' = r.otpError
    /\ UNCHANGED <<otpVars, genVars, clientVars, limiterVars, userVars, timerVars>>

\* the user puts the focus on cell i of the OTP form
FocusCell(i) ==
    /\ currentStep = 2
    /\ Shows([CellState EXCEPT !.focused = i])

\* an input event on the focused cell
HandleOTPInput(i, value) ==
    /\ currentStep = 2
    /\ focused = i
    /\ Shows(handleOTPInput(CellState, i, value))

\* a keydown event on the focused cell
HandleOTPKeydown(i, key) ==
    /\ currentStep = 2
    /\ focused = i
    /\ Shows(handleOTPKeydown(CellState, i, key))

\* a paste event on the focused cell
HandleOTPPaste(i, text) ==
    /\ currentStep = 2
    /\ focused = i
    /\ Shows(handleOTPPaste(CellState, text))

\* the events of the six cells
CellEvents ==
    \E i \in Cells :
        \/ FocusCell(i)
        \/ \E value \in InputValues : HandleOTPInput(i, value)
        \/ \E key \in Keys : HandleOTPKeydown(i, key)
        \/ \E text \in PasteSamples : HandleOTPPaste(i, text)

\* The OTP form reached by a registration and the events of its cells.
NextCells ==
    \/ HandleRegistration("a@x.com", "ok")
    \/ RequestInsert(PageProc, "100000", "5a", "ok")
    \/ RequestSend(PageProc, "ok")
    \/ HandleRegistrationDone
    \/ CellEvents

SpecCells == Init /\ [][NextCells]_vars

\* DatabaseService called for any contact with any code, one call at a time.
NextService ==
    \/ ClientTick
    \/ \E e \in Contacts, otp \in generateOTP, smtp \in {"ok", "throw"} :
            SendRegistrationOTP(e, otp, smtp)
    \/ \E e \in Contacts, otp \in generateOTP, out \in {"ok", "throw"} :
            VerifyRegistrationOTP(e, otp, out)
    \/ \E e \in Contacts, otp \in generateOTP, smtp \in {"ok", "throw"} :
            ResendOTP(e, otp, smtp)

SpecService == Init /\ [][NextService]_vars

\* The mail path of DatabaseService for one contact within one clock
\* step, EmailService configured with an SMTP host or not.
InitMail == OtpInit /\ GenIdle /\ LimiterInit /\ UsersInit /\ PageLoaded /\ \E conf \in BOOLEAN : ClientLoaded(conf)

NextMail ==
    \/ \E otp \in generateOTP, smtp \in {"ok", "throw"} :
            SendRegistrationOTP("a@x.com", otp, smtp)
    \/ \E otp \in generateOTP, smtp \in {"ok", "throw"} :
            ResendOTP("a@x.com", otp, smtp)

SpecMail == InitMail /\ [][NextMail]_vars

\* ------------------------------------------------------- otpLimiter
\* otpLimiter with the limit one request too high
OverLimit_OffByOne(hits) == hits > otpLimiterMax + 1

\* the test of the limiter on the hits counted, this request included
OverLimit(hits) == hits > otpLimiterMax

\* the limiter's entry for an IP when a request arrives at time t: a new
\* window of windowMs starts when the IP has none running
WindowAt(entry, t) ==
    IF t >= entry.resetTime
    THEN [hits |-> 0, resetTime |-> t + otpLimiterWindowMs]
    ELSE entry

\* POST /auth/request-otp from its first middleware: otpLimiter counts the
\* request for its IP and either answers 429 itself or lets the request on
\* to the handler, whose first await is the clean-up of expired rows.
OtpLimiterRequest(p, ip, c, out) ==
    LET counted == [WindowAt(otpLimiterStore[ip], now) EXCEPT !.hits = @ + 1] IN
    /\ otpLimiterStore' = [otpLimiterStore EXCEPT ![ip] = counted]
    /\ IF OverLimit(counted.hits) THEN
            /\ pc[p] = "idle"
            /\ Delivered
            /\ counted.hits <= otpLimiterMax + MaxRejected
            /\ req' = [req EXCEPT ![p] = [op |-> "request", contact |-> c, otp |-> ""]]
            /\ Finish(p, Response("error", "otp_rate_limit_exceeded"))
            /\ UNCHANGED <<otp_records, now, nextId, recs, invalidResp, succeeded,
                           faults, mailFailed, passedAt>>
       ELSE
            /\ Len(passedAt) < MaxPassed
            /\ passedAt' = Append(passedAt,
                    [ip |-> ip, at |-> now, window |-> counted.resetTime])
            /\ RequestDeleteStep(p, c, out)
    /\ UNCHANGED <<genVars, clientVars, userVars, pageVars>>

\* request-otp requests of one client for one contact, one at a time, the
\* store and the mail transport working; the clock runs past the end of
\* the limiter's first window
NextLimit ==
    \/ ClientTick
    \/ \E ip \in IPs : OtpLimiterRequest(1, ip, "a@x.com", "ok")
    \/ RequestInsert(1, "100000", "5a", "ok")
    \/ RequestSend(1, "ok")
    \/ Return(1)

SpecLimit == Init /\ [][NextLimit]_vars

\* ------------------------------------------------------------ signup
UsersOf(table, e) == {u \in table : u.email = e}

\* POST /auth/signup, first await: the look-up of the e-mail in users.
\* Only data is read from the result: a look-up that resolves with
\* { error } reads as "no such user".
SignupSelectStep(p, e, out) ==
    /\ pc[p] = "idle"
    /\ Delivered
    /\ Await(out)
    /\ req' = [req EXCEPT ![p] = [op |-> "signup", contact |-> e, otp |-> ""]]
    /\ recs' = [recs EXCEPT ![p] = << >>]
    /\ IF out = "throw" THEN
            Finish(p, Response("error", "internal_error"))
       ELSE IF out = "ok" /\ UsersOf(users, e) # {} THEN
            Finish(p, Response("error", "user_exists"))
       ELSE /\ pc' = [pc EXCEPT ![p] = "signup_insert"]
            /\ UNCHANGED resp
    /\ UNCHANGED <<otp_records, now, nextId, invalidResp, succeeded, mailFailed, users>>

\* a signup request, the page and the other parts left as they are
SignupSelect(p, e, out) ==
    /\ SignupSelectStep(p, e, out)
    /\ UNCHANGED <<genVars, clientVars, limiterVars, pageVars>>

\* users without the UNIQUE constraint on email
UniqueViolation_None(table, e) == FALSE

\* users.email is UNIQUE: the insert of a second row for an e-mail is
\* refused with code 23505
UniqueViolation(table, e) == UsersOf(table, e) # {}

\* the insert into users and the response
SignupInsert(p, out) ==
    /\ pc[p] = "signup_insert"
    /\ Delivered
    /\ Await(out)
    /\ IF out = "throw" THEN
            /\ Finish(p, Response("error", "internal_error"))
            /\ UNCHANGED users
       ELSE IF out = "error" THEN
            /\ Finish(p, Response("error", "database_error"))
            /\ UNCHANGED users
       ELSE IF UniqueViolation(users, req[p].contact) THEN
            /\ Finish(p, Response("error", "user_exists"))
            /\ UNCHANGED users
       ELSE
            /\ users' = users \cup
                    {[id |-> Cardinality(users) + 1, email |-> req[p].contact]}
            /\ Finish(p, Response("success", "none"))
    /\ UNCHANGED <<otp_records, now, nextId, req, recs, invalidResp, succeeded, mailFailed>>
    /\ UNCHANGED <<genVars, clientVars, limiterVars, pageVars>>

\* Requests of one client, one at a time, within the lifetime of the codes
\* issued: the OTP endpoints for one contact and signup for any e-mail.
NextSignup ==
    \/ Step(1, {"a@x.com"}, {"ok"})
    \/ \E e \in Contacts, out \in Outcomes : SignupSelect(1, e, out)
    \/ \E out \in Outcomes : SignupInsert(1, out)

SpecSignup == Init /\ [][NextSignup]_vars

\* Signup requests of MaxProcs clients interleave at their awaits.
NextSignupConc ==
    \E p \in Procs :
        \/ \E e \in Contacts, out \in Outcomes : SignupSelect(p, e, out)
        \/ \E out \in Outcomes : SignupInsert(p, out)
        \/ Return(p)

SpecSignupConc == Init /\ [][NextSignupConc]_vars

\* ------------------------------------------------------------- login
LowerCaseLetters ==
    {"a", "b", "c", "d", "e", "f", "g", "h", "i", "j", "k", "l", "m",
     "n", "o", "p", "q", "r", "s", "t", "u", "v", "w", "x", "y", "z"}

UpperCaseLetters ==
    {"A", "B", "C", "D", "E", "F", "G", "H", "I", "J", "K", "L", "M",
     "N", "O", "P", "Q", "R", "S", "T", "U", "V", "W", "X", "Y", "Z"}

\* password.match(/^(?=.*[a-z])(?=.*[A-Z])(?=.*\d).{6,}$/), a password
\* being the sequence of its characters (none of them a line break)
FallbackPassword(password) ==
    /\ \E k \in 1 .. Len(password) : password[k] \in LowerCaseLetters
    /\ \E k \in 1 .. Len(password) : password[k] \in UpperCaseLetters
    /\ \E k \in 1 .. Len(password) : password[k] \in Digits
    /\ Len(password) >= 6

\* the email fields of the login bodies ("": none)
LoginEmails == Contacts \cup {"test@example.com", ""}

\* the password fields of the login bodies (<< >>: none)
Passwords ==
    { <<"T", "e", "s", "t", "1", "2", "3", "4">>,
      <<"t", "e", "s", "t", "1", "2", "3", "4">>,
      <<"T", "e", "1">>,
      << >> }

\* POST /auth/login, the same handler in the production server and in the
\* final production server: the test of the body, the look-up
\* .eq("email", email).single() and the response
Login(p, email, password, out) ==
    /\ pc[p] = "idle"
    /\ Delivered
    /\ req' = [req EXCEPT ![p] = [op |-> "login", contact |-> email, otp |-> ""]]
    /\ recs' = [recs EXCEPT ![p] = << >>]
    /\ IF email = "" \/ password = << >> THEN
            /\ out = "ok"
            /\ UNCHANGED faults
            /\ Finish(p, Response("error", "email_and_password_required"))
       ELSE
            /\ Await(out)
            /\ IF out = "throw" THEN
                    Finish(p, Response("error", "internal_error"))
               ELSE IF out = "error" \/ Cardinality(UsersOf(users, email)) # 1 THEN
                    IF email = "test@example.com" /\ FallbackPassword(password)
                    THEN Finish(p, [status |-> "ok", error |-> "none", user |-> 999])
                    ELSE Finish(p, Response("error", "user_not_found"))
               ELSE \E user \in UsersOf(users, email) :
                    Finish(p, [status |-> "ok", error |-> "none", user |-> user.id])
    /\ UNCHANGED <<otp_records, now, nextId, invalidResp, succeeded, mailFailed, users>>
    /\ UNCHANGED <<genVars, clientVars, limiterVars, pageVars>>

\* Requests of one client, one at a time: signup and login.
NextLogin ==
    \/ \E e \in Contacts, out \in Outcomes : SignupSelect(1, e, out)
    \/ \E out \in Outcomes : SignupInsert(1, out)
    \/ \E email \in LoginEmails, password \in Passwords, out \in Outcomes :
            Login(1, email, password, out)
    \/ Return(1)

SpecLogin == Init /\ [][NextLogin]_vars

\* ------------------------------------------- the OTP form's submit
\* the length test of handleOTPVerification reduced to "not empty"
CodeComplete_NonEmpty(otpCode) == otpCode # ""

\* handleOTPVerification: !otpCode || otpCode.length !== 6 is false
CodeComplete(otpCode) == otpCode # "" /\ Len(otpCode) = 6

\* the server process is back to idle, its response taken
Taken(p) ==
    /\ pc' = [pc EXCEPT ![p] = "idle"]
    /\ req' = [req EXCEPT ![p] = NoReq]
    /\ recs' = [recs EXCEPT ![p] = << >>]
    /\ resp' = [resp EXCEPT ![p] = Response("none", "none")]
    /\ UNCHANGED <<otp_records, now, nextId, invalidResp, succeeded, faults, mailFailed>>

\* MedicalRegistration.handleOTPVerification up to its first await: the
\* code of the cells is tested and, when complete, sent to verify-otp
\* through productionAPI.verifyOTP; the request enters the handler, whose
\* select ends with out.  The verify button is disabled meanwhile.
HandleOTPVerification(out) ==
    /\ currentStep = 2
    /\ verifyPending = "no"
    /\ LET otpCode == getOTPCode(otpDigits) IN
       IF ~CodeComplete(otpCode) THEN
            /\ otpError' = "Please enter the complete 6-digit code"
            /\ UNCHANGED <<otpVars, verifyPending>>
       ELSE
            /\ verifyPending' = "verify"
            /\ VerifyFetchStep(PageProc, registrationData, otpCode, out)
            /\ UNCHANGED otpError
    /\ UNCHANGED <<genVars, clientVars, limiterVars, userVars, otpDigits, focused>>
    /\ UNCHANGED <<otpTimerInterval, intervals, lastHandle, otpExpiryTime, otpTimerText,
                   resendDisabled, registerPending, resendResult>>

\* handleOTPVerification after productionAPI.verifyOTP: a response that is
\* not ok is thrown, shown on the form and ends the handler
VerifyOTPDone ==
    /\ verifyPending = "verify"
    /\ pc[PageProc] = "done"
    /\ req[PageProc].op = "verify"
    /\ IF resp[PageProc].status = "success" THEN
            /\ verifyPending' = "signup"
            /\ UNCHANGED otpError
       ELSE
            /\ verifyPending' = "no"
            /\ otpError' = resp[PageProc].error
    /\ Taken(PageProc)
    /\ UNCHANGED <<genVars, clientVars, limiterVars, userVars, otpDigits, focused>>
    /\ UNCHANGED <<otpTimerInterval, intervals, lastHandle, otpExpiryTime, otpTimerText,
                   resendDisabled, registerPending, resendResult>>

\* productionAPI.registerUser: the signup request enters its handler, whose
\* look-up ends with out
RegisterUser(out) ==
    /\ verifyPending = "signup"
    /\ SignupSelectStep(PageProc, registrationData, out)
    /\ UNCHANGED <<genVars, clientVars, limiterVars, pageVars>>

\* handleOTPVerification after productionAPI.registerUser: on success the
\* countdown is cleared and the success message shown
RegisterUserDone ==
    /\ verifyPending = "signup"
    /\ pc[PageProc] = "done"
    /\ req[PageProc].op = "signup"
    /\ verifyPending' = "no"
    /\ IF resp[PageProc].status = "success" THEN
            /\ intervals' = clearInterval(intervals, otpTimerInterval)
            /\ otpTimerInterval' = NoHandle
            /\ currentStep' = 3
            /\ UNCHANGED otpError
       ELSE
            /\ otpError' = resp[PageProc].error
            /\ UNCHANGED <<intervals, otpTimerInterval, currentStep>>
    /\ Taken(PageProc)
    /\ UNCHANGED <<genVars, limiterVars, userVars, otpDigits, focused>>
    /\ UNCHANGED <<otpStorage, registrationData, rateLimitTracker, isConfigured, issued,
                   otpLog, clientResult>>
    /\ UNCHANGED <<lastHandle, otpExpiryTime, otpTimerText, resendDisabled,
                   registerPending, resendResult>>

\* the submit of the OTP form and the server's part in it
SubmitSteps ==
    \/ \E out \in {"ok", "throw"} : HandleOTPVerification(out)
    \/ VerifyIncrement(PageProc, "ok")
    \/ VerifyConsume(PageProc, "ok")
    \/ VerifyOTPDone
    \/ \E out \in {"ok", "throw"} : RegisterUser(out)
    \/ SignupInsert(PageProc, "ok")
    \/ RegisterUserDone

\* The OTP form reached by a registration, its cells filled by pasting and
\* edited from the right, and its submit.
NextSubmit ==
    \/ HandleRegistration("a@x.com", "ok")
    \/ RequestInsert(PageProc, "100000", "5a", "ok")
    \/ RequestSend(PageProc, "ok")
    \/ HandleRegistrationDone
    \/ \E i \in Cells :
            \/ \E value \in {"", "7"} : HandleOTPInput(i, value)
            \/ HandleOTPKeydown(i, "Backspace")
            \/ \E text \in {<<"1", "2", "-", "3", "4", "-", "5", "6">>,
                            <<"1", "0", "0", "0", "0", "0">>} : HandleOTPPaste(i, text)
    \/ SubmitSteps

SpecSubmit == Init /\ [][NextSubmit]_vars

\* The same, the user submitting the OTP form again whenever it is shown
\* with its button enabled, and every request sent being answered.
SpecSubmitFair == SpecSubmit /\ WF_vars(SubmitSteps)

\* ------------------------------------- validateOtpVerification
\* A body field is the sequence of its characters; Text joins them into the
\* string the handler works with.
RECURSIVE Text(_)
Text(chars) == IF chars = << >> THEN "" ELSE Head(chars) \o Text(Tail(chars))

\* isEmail() on the samples: one "@" with a local part before it and, after
\* it, a domain with a dot between two non-empty labels
isEmail(str) ==
    \E at \in 2 .. Len(str) - 3 :
        /\ str[at] = "@"
        /\ \A k \in 1 .. Len(str) : str[k] = "@" => k = at
        /\ \E dot \in at + 2 .. Len(str) - 1 : str[dot] = "."
        /\ str[at + 1] # "." /\ str[Len(str)] # "."

\* normalizeEmail(): the address in lower case
normalizeEmail(str) ==
    [k \in 1 .. Len(str) |->
        IF str[k] = "A" THEN "a" ELSE IF str[k] = "X" THEN "x" ELSE str[k]]

\* isNumeric() without options: /^[+-]?([0-9]*[.])?[0-9]+$/
isNumeric(str) ==
    LET unsigned == IF str # << >> /\ Head(str) \in {"+", "-"} THEN Tail(str) ELSE str
        AllDigits(from, to) == \A k \in from .. to : unsigned[k] \in Digits
    IN  /\ unsigned # << >>
        /\ \/ AllDigits(1, Len(unsigned))
           \/ \E dot \in 1 .. Len(unsigned) - 1 :
                /\ unsigned[dot] = "."
                /\ AllDigits(1, dot - 1)
                /\ AllDigits(dot + 1, Len(unsigned))

\* validateOtpVerification: no error is collected for the body
validateOtpVerification(contact, otp) ==
    /\ isEmail(contact)
    /\ Len(otp) = 6
    /\ isNumeric(otp)

\* the contact fields of the bodies sent
BodyContacts ==
    { <<"a", "@", "x", ".", "c", "o", "m">>,
      <<"A", "@", "X", ".", "c", "o", "m">>,
      <<"a", "x", ".", "c", "o", "m">>,
      <<"a", "@", "x">>,
      << >> }

\* the otp fields of the bodies sent
BodyOtps ==
    { <<"1", "0", "0", "0", "0", "0">>,
      <<"9", "9", "9", "9", "9", "8">>,
      <<"1", "2", "3", "4", "5">>,
      <<"1", "2", "3", "4", "5", "6", "7">>,
      <<"1", "2", "a", "4", "5", "6">>,
      <<"+", "1", "2", "3", "4", "5">>,
      <<"1", ".", "2", "3", "4", "5">>,
      << >> }

\* POST /auth/verify-otp from the validation middleware on:
\* handleValidationErrors answers 400 validation_error, or the handler runs
\* with the normalised contact and String(otp).trim(), which leaves an otp
\* that passed isNumeric as it is
VerifyRequest(p, contact, otp, out) ==
    IF validateOtpVerification(contact, otp) THEN
        VerifyFetch(p, Text(normalizeEmail(contact)), Text(otp), out)
    ELSE
        /\ pc[p] = "idle"
        /\ Delivered
        /\ req' = [req EXCEPT ![p] = [op |-> "verify",
                                      contact |-> Text(normalizeEmail(contact)),
                                      otp |-> Text(otp)]]
        /\ recs' = [recs EXCEPT ![p] = << >>]
        /\ Finish(p, Response("error", "validation_error"))
        /\ UNCHANGED <<otp_records, now, nextId, invalidResp, succeeded, faults,
                       mailFailed>>
        /\ UNCHANGED nonOtpVars

\* One client: it asks for codes for a@x.com and sends verify-otp bodies
\* of any shape.
NextInput ==
    \/ Tick
    \/ \E out \in {"ok"} : RequestDelete(1, "a@x.com", out)
    \/ \E otp \in genOtp, salt \in Salts : RequestInsert(1, otp, salt, "ok")
    \/ RequestSend(1, "ok")
    \/ \E contact \in BodyContacts, otp \in BodyOtps : VerifyRequest(1, contact, otp, "ok")
    \/ VerifyIncrement(1, "ok")
    \/ VerifyConsume(1, "ok")
    \/ Return(1)

SpecInput == Init /\ [][NextInput]_vars


\* ------------------------------------------------------- vocabulary
\* p sends its response in this step
Answers(p) == pc[p] # "done" /\ pc'[p] = "done"

\* p's verify request reads the store in this step
Fetches(p) == pc[p] = "idle" /\ pc'[p] # "idle" /\ req'[p].op = "verify"

VerifyDone(p) == pc[p] = "done" /\ req[p].op = "verify"

\* the candidate code is the code of the row
Matches(otp, rec) == hashOtp(otp, rec.salt) = rec.otp_hash

\* ------------------------------------------------------------ claims

\* C1: single consumption, sequential.  With one request at a time and no
\* failed await: a verify-otp with the correct code for a row that no
\* verify has succeeded on, the row unexpired and under the attempt cap,
\* answers success; every verify-otp that reads a row a verify has already
\* succeeded on answers otp_already_used.
C1_SingleConsumption ==
    [][\A p \in Procs :
        (Answers(p) /\ req'[p].op = "verify" /\ Len(recs'[p]) = 1) =>
            LET rec == recs'[p][1] IN
            /\ rec.id \in succeeded => resp'[p].error = "otp_already_used"
            /\ ( /\ rec.id \notin succeeded
                 /\ Matches(req'[p].otp, rec)
                 /\ now <= rec.expires_at
                 /\ rec.attempts < MAX_OTP_ATTEMPTS
                 /\ faults' = 0 )
               => (resp'[p].status = "success" /\ rec.id \in succeeded')
    ]_vars

\* the second call: the correct code, the row unexpired and under the cap,
\* answered otp_already_used after a success
C1_Witness ==
    \E p \in Procs :
        /\ VerifyDone(p) /\ Len(recs[p]) = 1
        /\ resp[p].error = "otp_already_used"
        /\ recs[p][1].id \in succeeded
        /\ Matches(req[p].otp, recs[p][1])
        /\ now <= recs[p][1].expires_at
        /\ recs[p][1].attempts < MAX_OTP_ATTEMPTS
        /\ faults = 0

\* C2: single consumption under interleaving, as claimed: a verify-otp
\* answers success only for a row no verify has answered success for
\* before, and the consumed update finds the row not yet consumed.
C2_AtMostOneSuccess ==
    [][\A p \in Procs :
        (Answers(p) /\ req'[p].op = "verify" /\ resp'[p].status = "success") =>
            /\ recs'[p][1].id \notin succeeded
            /\ \A r \in otp_records : r.id = recs'[p][1].id => ~r.consumed
    ]_vars

\* C3: attempt cap, sequential.  With one request at a time and no failed
\* await: once MAX_OTP_ATTEMPTS verify-otp calls have answered invalid_otp
\* for a row, a further verify-otp that reads that row before its expiry
\* answers too_many_attempts, whatever its code, and leaves the row
\* unconsumed.
C3_AttemptCap ==
    [][\A p \in Procs :
        (Answers(p) /\ req'[p].op = "verify" /\ Len(recs'[p]) = 1) =>
            LET rec == recs'[p][1] IN
            ( /\ invalidResp[rec.id] >= MAX_OTP_ATTEMPTS
              /\ now <= rec.expires_at
              /\ faults' = 0 )
            => /\ resp'[p].error = "too_many_attempts"
               /\ \A r \in otp_records' : r.id = rec.id => ~r.consumed
    ]_vars

\* the sixth call carries the correct code and is answered too_many_attempts
C3_Witness ==
    \E p \in Procs :
        /\ VerifyDone(p) /\ Len(recs[p]) = 1
        /\ resp[p].error = "too_many_attempts"
        /\ Matches(req[p].otp, recs[p][1])
        /\ invalidResp[recs[p][1].id] = MAX_OTP_ATTEMPTS
        /\ \E r \in otp_records : r.id = recs[p][1].id /\ ~r.consumed
        /\ faults = 0

\* C4: no lost update on attempts, as claimed: the stored attempts of a
\* row equals the number of invalid_otp answers given for it.
C4_NoLostUpdate ==
    faults = 0 => \A r \in otp_records : r.attempts = invalidResp[r.id]

\* C5: attempts is monotonic per row, as claimed: no step lowers the
\* attempts of a row that stays in the table.
C5_AttemptsMonotonic ==
    [][\A r \in otp_records : \A r2 \in otp_records' :
            r2.id = r.id => r2.attempts >= r.attempts
    ]_vars

\* C6: attempts is bounded: under every interleaving of requests, every
\* row of the table has 0 <= attempts <= MAX_OTP_ATTEMPTS.
C6_AttemptsBounded ==
    \A r \in otp_records : 0 <= r.attempts /\ r.attempts <= MAX_OTP_ATTEMPTS

\* the cap is reached by two interleaved wrong guesses that both read
\* attempts = cap - 1: one more invalid_otp answer than the stored attempts
C6_Witness ==
    \E r \in otp_records :
        /\ r.attempts = MAX_OTP_ATTEMPTS
        /\ invalidResp[r.id] = MAX_OTP_ATTEMPTS + 1

\* C7, as claimed: a verify-otp that reads a row whose expires_at is in the
\* past answers otp_expired, whatever the row's consumed and attempts are.
C7_ExpiredWhateverConsumed ==
    [][\A p \in Procs :
        (Fetches(p) /\ Len(recs'[p]) = 1 /\ now > recs'[p][1].expires_at) =>
            (pc'[p] = "done" /\ resp'[p].error = "otp_expired")
    ]_vars

\* C7, amended: a verify-otp that reads an unconsumed row whose expires_at
\* is in the past answers otp_expired, whether its code is correct or not
\* and whatever the row's attempts are; a consumed row answers
\* otp_already_used, expired or not.
C7_Expiry ==
    [][\A p \in Procs :
        (Fetches(p) /\ Len(recs'[p]) = 1 /\ now > recs'[p][1].expires_at) =>
            /\ pc'[p] = "done"
            /\ resp'[p].error =
                    IF recs'[p][1].consumed THEN "otp_already_used" ELSE "otp_expired"
    ]_vars

\* the correct code on the first attempt against an expired row
C7_Witness ==
    \E p \in Procs :
        /\ VerifyDone(p) /\ Len(recs[p]) = 1
        /\ resp[p].error = "otp_expired"
        /\ now > recs[p][1].expires_at
        /\ Matches(req[p].otp, recs[p][1])
        /\ recs[p][1].attempts = 0
        /\ invalidResp[recs[p][1].id] = 0

\* rows of contact c created before row rec
Older(table, rec) ==
    {r \in RecordsOf(table, rec.contact) : r.created_at < rec.created_at}

\* rec is the one row of its contact with the greatest created_at
StrictlyNewest(table, rec) ==
    /\ rec \in table
    /\ \A r \in RecordsOf(table, rec.contact) \ {rec} : r.created_at < rec.created_at

\* C8: newest wins, sequential.  With one request at a time: the row a
\* verify-otp reads is a row of the contact with the greatest created_at;
\* a verify step changes no row but the one it read; a verify-otp whose
\* code is the code of an older row of the contact and not the code of the
\* newest row does not succeed and consumes no row; and, with no failed
\* await, a verify-otp with the code of the strictly newest row, that row
\* unconsumed, unexpired and under the cap, succeeds.
C8_NewestWins ==
    [][\A p \in Procs :
        /\ (Fetches(p) /\ Len(recs'[p]) = 1) =>
                /\ recs'[p][1] \in RecordsOf(otp_records, req'[p].contact)
                /\ Older(otp_records, recs'[p][1]) =
                        RecordsOf(otp_records, req'[p].contact)
                            \ {r \in otp_records : r.created_at = recs'[p][1].created_at}
        /\ (pc[p] \in {"verify_increment", "verify_consume"} /\ pc'[p] # pc[p]) =>
                \A r \in otp_records : r.id # recs[p][1].id => r \in otp_records'
        /\ (Answers(p) /\ req'[p].op = "verify" /\ Len(recs'[p]) = 1) =>
                LET rec == recs'[p][1] IN
                /\ ( /\ ~Matches(req'[p].otp, rec)
                     /\ \E r \in Older(otp_records, rec) : Matches(req'[p].otp, r) )
                   => /\ resp'[p].status # "success"
                      /\ \A r \in otp_records' : r.consumed => r \in otp_records
                /\ ( /\ StrictlyNewest(otp_records, rec)
                     /\ Matches(req'[p].otp, rec)
                     /\ ~rec.consumed /\ now <= rec.expires_at
                     /\ rec.attempts < MAX_OTP_ATTEMPTS
                     /\ faults' = 0 )
                   => /\ resp'[p].status = "success"
                      /\ \A r \in otp_records' : r.id = rec.id => r.consumed
    ]_vars

\* the first code, still valid for the older row, is refused because the
\* newer row is the one read
C8_Witness ==
    \E p \in Procs :
        /\ VerifyDone(p) /\ Len(recs[p]) = 1
        /\ resp[p].error = "invalid_otp"
        /\ \E r \in otp_records :
            /\ r.contact = req[p].contact
            /\ r.created_at < recs[p][1].created_at
            /\ Matches(req[p].otp, r)
            /\ ~r.consumed /\ now <= r.expires_at /\ r.attempts = 0

\* the row of contact c inserted last
LastIssued(table, c) ==
    {r \in RecordsOf(table, c) : \A r2 \in RecordsOf(table, c) : r2.id <= r.id}

\* C9: recovery by re-issuance, sequential.  With one request at a time
\* and no failed await: a request-otp that answers success has left a row
\* with attempts 0, unconsumed, expiring OTP_TTL_MS after its creation; and
\* a verify-otp with the code of the row issued last for the contact (its
\* created_at later than that of every other row of the contact), made
\* before that row's expiry and before any other verify of it, succeeds,
\* whatever the other rows of the contact hold.
C9_RecoveryByReissuance ==
    [][\A p \in Procs :
        /\ (Answers(p) /\ req'[p].op = "request" /\ resp'[p].status = "success") =>
                /\ recs'[p][1] \in otp_records'
                /\ recs'[p][1].attempts = 0 /\ ~recs'[p][1].consumed
                /\ recs'[p][1].expires_at = recs'[p][1].created_at + OTP_TTL_MS
                /\ recs'[p][1].contact = req'[p].contact
        /\ (Answers(p) /\ req'[p].op = "verify") =>
                \A r \in LastIssued(otp_records, req'[p].contact) :
                    ( /\ StrictlyNewest(otp_records, r)
                      /\ Matches(req'[p].otp, r)
                      /\ invalidResp[r.id] = 0 /\ r.id \notin succeeded
                      /\ now <= r.expires_at
                      /\ faults' = 0 )
                    => resp'[p].status = "success"
    ]_vars

\* the new code verifies while the contact's previous row is locked at the cap
C9_Witness ==
    \E p \in Procs :
        /\ VerifyDone(p) /\ Len(recs[p]) = 1
        /\ resp[p].status = "success"
        /\ \E r \in otp_records :
            /\ r.contact = req[p].contact
            /\ r.created_at < recs[p][1].created_at
            /\ r.attempts = MAX_OTP_ATTEMPTS
            /\ now <= r.expires_at

\* C10: verify outcome precedence, sequential.  The answer of verify-otp is
\* decided by the row read and the candidate code, in this order: no row ->
\* otp_not_found; consumed -> otp_already_used; now > expires_at ->
\* otp_expired; attempts >= cap -> too_many_attempts; hash mismatch ->
\* invalid_otp; otherwise success (the last two when the write they make
\* does not fail).
C10_OutcomePrecedence ==
    [][\A p \in Procs :
        /\ (Fetches(p) /\ faults' = faults) =>
            IF Len(recs'[p]) = 0
            THEN /\ RecordsOf(otp_records, req'[p].contact) = {}
                 /\ pc'[p] = "done" /\ resp'[p].error = "otp_not_found"
            ELSE LET rec == recs'[p][1] IN
                 IF rec.consumed
                 THEN pc'[p] = "done" /\ resp'[p].error = "otp_already_used"
                 ELSE IF now > rec.expires_at
                 THEN pc'[p] = "done" /\ resp'[p].error = "otp_expired"
                 ELSE IF rec.attempts >= MAX_OTP_ATTEMPTS
                 THEN pc'[p] = "done" /\ resp'[p].error = "too_many_attempts"
                 ELSE IF ~Matches(req'[p].otp, rec)
                 THEN pc'[p] = "verify_increment"
                 ELSE pc'[p] = "verify_consume"
        /\ (pc[p] = "verify_increment" /\ pc'[p] # pc[p] /\ faults' = faults) =>
                pc'[p] = "done" /\ resp'[p].error = "invalid_otp"
        /\ (pc[p] = "verify_consume" /\ pc'[p] # pc[p] /\ faults' = faults) =>
                pc'[p] = "done" /\ resp'[p].status = "success"
        /\ (Answers(p) /\ req'[p].op = "verify" /\ resp'[p].error = "invalid_otp") =>
                ~Matches(req'[p].otp, recs'[p][1])
        /\ (Answers(p) /\ req'[p].op = "verify" /\ resp'[p].status = "success") =>
                Matches(req'[p].otp, recs'[p][1])
    ]_vars

\* expiry is looked at before the attempt cap: a row both expired and
\* locked answers otp_expired
C10_Witness ==
    \E p \in Procs :
        /\ VerifyDone(p) /\ Len(recs[p]) = 1
        /\ resp[p].error = "otp_expired"
        /\ recs[p][1].attempts >= MAX_OTP_ATTEMPTS
        /\ now > recs[p][1].expires_at

\* C11, as claimed: with one request at a time and no failed await, the
\* fifth wrong code submitted in a row for a record (no success between)
\* is answered too_many_attempts, and so is every submission after it.
C11_FifthTooMany ==
    [][\A p \in Procs :
        (Answers(p) /\ req'[p].op = "verify" /\ Len(recs'[p]) = 1) =>
            LET rec == recs'[p][1] IN
            ( /\ invalidResp[rec.id] >= MAX_OTP_ATTEMPTS - 1
              /\ rec.id \notin succeeded
              /\ ~Matches(req'[p].otp, rec) \/ invalidResp[rec.id] >= MAX_OTP_ATTEMPTS
              /\ now <= rec.expires_at
              /\ faults' = 0 )
            => resp'[p].error = "too_many_attempts"
    ]_vars

\* C11, amended: with one request at a time and no failed await, the
\* fifth wrong code submitted in a row for a record (no success between)
\* is answered invalid_otp with attemptsRemaining 0, and the sixth submission, whatever its code, is
\* answered too_many_attempts.
C11_FiveWrongCodes ==
    [][\A p \in Procs :
        (Answers(p) /\ req'[p].op = "verify" /\ Len(recs'[p]) = 1) =>
            LET rec == recs'[p][1] IN
            /\ ( /\ invalidResp[rec.id] = MAX_OTP_ATTEMPTS - 1
                 /\ rec.id \notin succeeded
                 /\ ~Matches(req'[p].otp, rec)
                 /\ now <= rec.expires_at
                 /\ faults' = 0 )
               => /\ resp'[p].error = "invalid_otp"
                  /\ resp'[p].attemptsRemaining = 0
            /\ ( /\ invalidResp[rec.id] = MAX_OTP_ATTEMPTS
                 /\ now <= rec.expires_at
                 /\ faults' = 0 )
               => resp'[p].error = "too_many_attempts"
    ]_vars

\* the fifth wrong code has just been answered invalid_otp, none remaining
C11_Witness ==
    \E p \in Procs :
        /\ VerifyDone(p) /\ Len(recs[p]) = 1
        /\ resp[p].error = "invalid_otp"
        /\ resp[p].attemptsRemaining = 0
        /\ invalidResp[recs[p][1].id] = MAX_OTP_ATTEMPTS
        /\ nextId = 2
        /\ faults = 0

\* C12, as claimed: every invalid_otp answer carries attemptsRemaining =
\* MAX_OTP_ATTEMPTS minus the attempts the row holds after the handler's
\* increment, never negative; the first wrong code for a fresh row is
\* answered attemptsRemaining = MAX_OTP_ATTEMPTS - 1.
C12_AttemptsRemaining ==
    [][\A p \in Procs :
        (Answers(p) /\ req'[p].op = "verify" /\ resp'[p].error = "invalid_otp") =>
            /\ resp'[p].attemptsRemaining >= 0
            /\ \A r \in otp_records' : r.id = recs'[p][1].id =>
                    resp'[p].attemptsRemaining = MAX_OTP_ATTEMPTS - r.attempts
            /\ invalidResp[recs'[p][1].id] = 0 =>
                    resp'[p].attemptsRemaining = MAX_OTP_ATTEMPTS - 1
    ]_vars

\* p's request-otp handler calls sendEmailOtp in this step
Sends(p) == pc[p] \in {"request_send", "final_send"} /\ pc'[p] # pc[p]

\* p's request-otp handler gets the result of its insert in this step
Inserts(p) ==
    \/ pc[p] = "request_insert" /\ pc'[p] # pc[p]
    \/ pc[p] = "idle" /\ pc'[p] # pc[p] /\ req'[p].op = "final_request"

\* C13: persist-then-send, as claimed: when request-otp calls the mail
\* transport, the table holds a row of the contact with the hash of the
\* code being mailed; and when the insert fails, the handler answers
\* without calling the mail transport and the table is as it was.
C13_PersistThenSend ==
    [][\A p \in Procs :
        /\ Sends(p) =>
                \E r \in otp_records :
                    r.contact = req[p].contact /\ Matches(req[p].otp, r)
        /\ (Inserts(p) /\ faults' > faults) =>
                pc'[p] = "done" /\ otp_records' = otp_records
    ]_vars

\* C14: an e-mail failure does not roll the issuance back.  With one
\* request at a time: when the mail transport fails after the insert,
\* request-otp answers email_error and the row just inserted stays in the
\* table as inserted (unconsumed, attempts 0, expiring OTP_TTL_MS after its
\* creation); and a verify-otp that reads such a row, unconsumed, unexpired
\* and under the cap, with its code and no failed await, succeeds.
C14_EmailFailureKeepsRecord ==
    [][\A p \in Procs :
        /\ (Sends(p) /\ pc[p] = "request_send" /\ faults' > faults) =>
                /\ resp'[p].error = "email_error"
                /\ otp_records' = otp_records
                /\ recs[p][1] \in otp_records'
                /\ ~recs[p][1].consumed /\ recs[p][1].attempts = 0
                /\ recs[p][1].expires_at = recs[p][1].created_at + OTP_TTL_MS
                /\ Matches(req[p].otp, recs[p][1])
        /\ (Answers(p) /\ req'[p].op = "verify" /\ Len(recs'[p]) = 1) =>
                LET rec == recs'[p][1] IN
                ( /\ rec.id \in mailFailed
                  /\ Matches(req'[p].otp, rec)
                  /\ ~rec.consumed /\ now <= rec.expires_at
                  /\ rec.attempts < MAX_OTP_ATTEMPTS
                  /\ faults' = faults )
                => /\ resp'[p].status = "success"
                   /\ rec \in otp_records
    ]_vars

\* a row whose mail failed has been verified with its code
C14_Witness ==
    \E p \in Procs :
        /\ VerifyDone(p) /\ Len(recs[p]) = 1
        /\ resp[p].status = "success"
        /\ recs[p][1].id \in mailFailed

\* C15: issued record shape.  With one request at a time: the insert of a
\* request-otp adds exactly one row to the table and changes no other; a
\* request-otp that answers success has left that row for its contact with
\* consumed = false, attempts = 0 and expires_at = created_at + OTP_TTL_MS
\* (5 minutes), and answers expiresIn = 300, the same lifetime in seconds.
C15_IssuedRecordShape ==
    [][\A p \in Procs :
        /\ (Inserts(p) /\ pc[p] = "request_insert" /\ faults' = faults) =>
                /\ otp_records \subseteq otp_records'
                /\ Cardinality(otp_records' \ otp_records) = 1
                /\ otp_records' \ otp_records = {recs'[p][1]}
                /\ \A r \in otp_records : r.id # recs'[p][1].id
                /\ recs'[p][1].created_at = now
        /\ (Answers(p) /\ req'[p].op = "request" /\ resp'[p].status = "success") =>
                LET rec == recs'[p][1] IN
                /\ rec \in otp_records'
                /\ rec.contact = req'[p].contact
                /\ rec.consumed = FALSE /\ rec.attempts = 0
                /\ rec.expires_at = rec.created_at + 5 * 60 * 1000
                /\ resp'[p].expiresIn = 300
                /\ resp'[p].expiresIn * 1000 = rec.expires_at - rec.created_at
    ]_vars

\* a second code has been issued for a contact: success, expiresIn 300,
\* both rows in the table
C15_Witness ==
    \E p \in Procs :
        /\ pc[p] = "done" /\ req[p].op = "request"
        /\ resp[p].status = "success" /\ resp[p].expiresIn = 300
        /\ recs[p][1] \in otp_records
        /\ Cardinality(RecordsOf(otp_records, req[p].contact)) = 2

\* the number a string of decimal digits denotes
RECURSIVE Number(_)
Number(c) == IF Len(c) = 0 THEN 0 ELSE 10 * Number(SubSeq(c, 1, Len(c) - 1)) + c[Len(c)]

\* genOtp of index.js can return the code c (String is one-to-one on the
\* naturals: the only integer it can come from is the one c denotes)
GenOtpCanReturn(c) ==
    Number(c) \in randomInt(100000, 999999) /\ toString(Number(c)) = c

\* DatabaseService.generateOTP can return the code c
GenerateOTPCanReturn(c) ==
    Number(c) - 100000 \in MathRandomTimes(900000) /\ toString(Number(c)) = c

\* C16: code range, as claimed: every code a generator returns is a string
\* of 6 decimal digits, and every 6-digit string 000000..999999 (leading
\* zeros included) is a code genOtp and generateOTP can return.
C16_CodeRange ==
    /\ code # << >> => Len(code) = 6 /\ \A i \in 1 .. 6 : code[i] \in 0 .. 9
    /\ GenOtpCanReturn(wanted)
    /\ GenerateOTPCanReturn(wanted)

\* a resend for contact e is answered in this step
Resends(e) ==
    /\ clientResult' # clientResult
    /\ clientResult'.op \in {"resend", "page_resend"}
    /\ clientResult'.email = e

\* C17: resend availability, as claimed: a resend for a contact an OTP
\* was issued for succeeds, with a new expiry, expired or not; a resend
\* fails with no_pending_registration only for a contact no OTP was ever
\* issued for; in particular the page's resend succeeds after
\* handleRegistration obtained an OTP for the email.
C17_ResendAvailability ==
    [][\A e \in Contacts :
        Resends(e) =>
            /\ e \in issued =>
                    /\ clientResult'.status = "success"
                    /\ clientResult'.expiryTime = now + otpExpiry * 60 * 1000
            /\ clientResult'.error = "no_pending_registration" => e \notin issued
    ]_vars

\* C18: resend rate limit, as claimed: a resend for a contact with a
\* pending OTP, made when the mails tracked for the contact within the
\* window have reached the limit, fails with a rate-limit error, leaves the
\* stored OTP as it was and does not contact the mail endpoint.
C18_ResendRateLimit ==
    [][\A e \in Contacts :
        ( /\ Resends(e)
          /\ isConfigured
          /\ otpStorage[e].stored
          /\ Len(rateLimitTracker[e]) >= maxEmails )
        => /\ clientResult'.status = "error"
           /\ clientResult'.error = "rate_limited"
           /\ otpStorage' = otpStorage
           /\ rateLimitTracker' = rateLimitTracker
    ]_vars

\* requests from ip that reached the handler at a time in [t, t + d)
PassedWithin(log, ip, t, d) ==
    {j \in 1 .. Len(log) : log[j].ip = ip /\ t <= log[j].at /\ log[j].at < t + d}

\* requests from ip that reached the handler in the limiter's window ending at w
PassedInWindow(log, ip, w) ==
    {j \in 1 .. Len(log) : log[j].ip = ip /\ log[j].window = w}

\* p's request-otp is answered by otpLimiter in this step
Rejects(p) == Answers(p) /\ resp'[p].error = "otp_rate_limit_exceeded"

\* a rejected request never entered the handler: no row added or deleted,
\* no mail, no await made
RejectedOutside(p) ==
    Rejects(p) =>
        /\ pc[p] = "idle"
        /\ otp_records' = otp_records /\ nextId' = nextId
        /\ passedAt' = passedAt
        /\ mailFailed' = mailFailed /\ faults' = faults

Verified(e) == \E r \in RecordsOf(otp_records, e) : r.consumed

\* C20: mandatory e-mail verification, as claimed: POST /auth/signup
\* creates a user row for e-mail e only if an OTP record of contact e was
\* verified (consumed) before.
C20_SignupRequiresVerifiedOtp ==
    [][\A e \in Contacts :
        (UsersOf(users, e) = {} /\ UsersOf(users', e) # {}) => Verified(e)
    ]_vars

\* the user rows with e-mail e
RowsFor(table, e) == {u \in table : u.email = e}

\* C21: one account per e-mail.  Under every interleaving of signup
\* requests: the users table never holds two rows with one e-mail; a
\* signup answers success only where no row with its e-mail existed, and
\* leaves exactly one; and a signup none of whose awaits in this step
\* fails, answered while a row with its e-mail exists, answers
\* user_exists.
C21_OneAccountPerEmail ==
    [][ /\ \A e \in Contacts : Cardinality(RowsFor(users', e)) <= 1
        /\ \A p \in Procs :
            (Answers(p) /\ req'[p].op = "signup") =>
                LET e == req'[p].contact IN
                /\ resp'[p].status = "success" =>
                        /\ RowsFor(users, e) = {}
                        /\ Cardinality(RowsFor(users', e)) = 1
                /\ (RowsFor(users, e) # {} /\ faults' = faults) =>
                        /\ resp'[p].error = "user_exists"
                        /\ users' = users
    ]_vars

\* two signups for one e-mail both passed the look-up; the second insert
\* was refused and answered user_exists
C21_Witness ==
    \E p \in Procs :
        /\ pc[p] = "done" /\ req[p].op = "signup"
        /\ resp[p].error = "user_exists"
        /\ \E q \in Procs \ {p} :
                req[q].op = "signup" /\ req[q].contact = req[p].contact
        /\ Cardinality(RowsFor(users, req[p].contact)) = 1
        /\ faults = 0

\* the countdown is Counting: the timer the page holds is live and the
\* deadline is ahead
Counting ==
    /\ otpTimerInterval # NoHandle
    /\ \E t \in intervals : t.id = otpTimerInterval
    /\ now < otpExpiryTime

\* an interval timer's callback runs in this step
Ticks ==
    /\ intervals' # intervals
    /\ lastHandle' = lastHandle
    /\ currentStep' = currentStep

C23_ResendGated == Counting => resendDisabled

NewestFor(e) ==
    {r \in otp_records :
        /\ r.contact = e
        /\ \A q \in otp_records : q.contact = e => q.created_at <= r.created_at}

\* C25: countdown/server agreement, as claimed: whenever the page takes a
\* deadline for its countdown (first issuance or resend), the server holds
\* a newest row for the page's e-mail whose expires_at is within one tick
\* (1000 ms) of that deadline.
C25_DeadlineAgreement ==
    [][otpExpiryTime' # otpExpiryTime =>
        \E r \in NewestFor(registrationData) :
            /\ otpExpiryTime' - r.expires_at <= 1000
            /\ r.expires_at - otpExpiryTime' <= 1000
    ]_vars

\* the digits 0-9 of a text, in order
RECURSIVE DigitsOf(_)
DigitsOf(text) ==
    IF text = << >> THEN << >>
    ELSE IF Head(text) \in {"0", "1", "2", "3", "4", "5", "6", "7", "8", "9"}
         THEN <<Head(text)>> \o DigitsOf(Tail(text))
         ELSE DigitsOf(Tail(text))

\* C26: paste.  Whatever the cells hold and wherever the focus is, a paste
\* of a text with exactly 6 digits among its characters leaves those digits
\* in the six cells, in order, and the focus on the last cell; "12-34-56"
\* gives 1,2,3,4,5,6.
C26_Paste ==
    /\ \A text \in PasteSamples :
            Len(DigitsOf(text)) = 6 =>
                LET r == handleOTPPaste(CellState, text) IN
                /\ \A k \in Cells : r.otpDigits[k] = DigitsOf(text)[k + 1]
                /\ r.focused = 5
    /\ LET r == handleOTPPaste(CellState, <<"1", "2", "-", "3", "4", "-", "5", "6">>) IN
            /\ getOTPCode(r.otpDigits) = "123456"
            /\ r.focused = 5

\* "12-34-56" was pasted over cells that held something else
C26_Witness ==
    /\ currentStep = 2
    /\ getOTPCode(otpDigits) = "123456"
    /\ focused = 5

\* C28: cell invariant.  After any sequence of input, keydown and paste
\* events every cell holds nothing or exactly one digit 0-9.
C28_CellInvariant ==
    \A i \in Cells :
        \/ otpDigits[i] = ""
        \/ otpDigits[i] \in {"0", "1", "2", "3", "4", "5", "6", "7", "8", "9"}

\* a typed digit, a pasted digit and an emptied cell side by side
C28_Witness ==
    /\ currentStep = 2
    /\ otpDigits[0] = "7"
    /\ otpDigits[1] = ""
    /\ otpDigits[2] = "3"

\* C29: arrow keys are content-neutral.  An ArrowLeft or ArrowRight keydown
\* on the focused cell i leaves the six cells as they are and moves the
\* focus to i-1 (ArrowLeft, i > 0) or i+1 (ArrowRight, i < 5), otherwise
\* nowhere.
C29_ArrowKeys ==
    \A i \in Cells :
        focused = i =>
            LET l == handleOTPKeydown(CellState, i, "ArrowLeft")
                r == handleOTPKeydown(CellState, i, "ArrowRight") IN
            /\ l.otpDigits = otpDigits
            /\ l.focused = IF i > 0 THEN i - 1 ELSE i
            /\ r.otpDigits = otpDigits
            /\ r.focused = IF i < 5 THEN i + 1 ELSE i

\* the focus stands between filled cells
C29_Witness ==
    /\ currentStep = 2
    /\ focused = 3
    /\ \A i \in Cells : otpDigits[i] # ""

\* C27: submit gating.  A verify-otp request leaves the page only from a
\* state in which all six cells are filled, and carries their 6-character
\* code; a signup request leaves only after a verify request was answered
\* success; and with a cell empty and no submit in progress no step sends
\* either request.
C27_SubmitGating ==
    [][ /\ (pc[PageProc] = "idle" /\ req'[PageProc].op = "verify") =>
                /\ \A i \in Cells : otpDigits[i] # ""
                /\ Len(req'[PageProc].otp) = 6
                /\ req'[PageProc].otp = getOTPCode(otpDigits)
        /\ (pc[PageProc] = "idle" /\ req'[PageProc].op = "signup") =>
                verifyPending = "signup"
        /\ (verifyPending = "no" /\ \E i \in Cells : otpDigits[i] = "") =>
                /\ verifyPending' = "no"
                /\ req'[PageProc].op \notin {"verify", "signup"}
    ]_vars

\* the form was submitted with a cell empty: the error is shown and the
\* server has received nothing
C27_Witness ==
    /\ currentStep = 2
    /\ otpError = "Please enter the complete 6-digit code"
    /\ \E i \in Cells : otpDigits[i] = ""
    /\ \E i \in Cells : otpDigits[i] # ""
    /\ verifyPending = "no"
    /\ pc[PageProc] = "idle"
    /\ users = {}
    /\ \A r \in otp_records : r.attempts = 0 /\ ~r.consumed

\* a verifyRegistrationOTP for contact e is answered in this step
VerifyAnswered(e) ==
    /\ clientResult' # clientResult
    /\ clientResult'.op = "verify"
    /\ clientResult'.email = e

\* C30: client-side OTP service limits.  verifyRegistrationOTP succeeds
\* only within 10 minutes of the sending of the stored OTP and with fewer
\* than 3 wrong codes entered against it; once 3 wrong codes were entered,
\* every verifyRegistrationOTP for the e-mail fails until an OTP is sent
\* again.
C30_ServiceLimits ==
    [][\A e \in Contacts :
        VerifyAnswered(e) =>
            /\ clientResult'.status = "success" =>
                    /\ otpStorage[e].stored
                    /\ now - otpLog[e].sentAt <= 10 * 60 * 1000
                    /\ otpLog[e].wrong < 3
            /\ otpLog[e].wrong >= 3 =>
                    /\ clientResult'.status = "error"
                    /\ ~otpStorage'[e].stored
    ]_vars

\* after three wrong codes the correct code was refused
C30_Witness ==
    \E e \in Contacts :
        /\ clientResult.op = "verify"
        /\ clientResult.email = e
        /\ clientResult.error = "too_many_attempts"
        /\ otpLog[e].wrong = 3
        /\ now - otpLog[e].sentAt <= 10 * 60 * 1000

\* the body is not what the interface asks for: a valid e-mail address and
\* an otp of exactly 6 numeric characters
Malformed(contact, otp) ==
    \/ ~isEmail(contact)
    \/ Len(otp) # 6
    \/ \E k \in 1 .. Len(otp) : otp[k] \notin Digits

\* C31: input errors do not touch the store.  A verify-otp request whose
\* contact is not a valid e-mail address or whose otp is not exactly 6
\* numeric characters is answered validation_error before the handler
\* runs, and no OTP record changes.
C31_InputErrors ==
    [][\A contact \in BodyContacts, otp \in BodyOtps :
        (Malformed(contact, otp) /\ VerifyRequest(1, contact, otp, "ok")) =>
            /\ pc'[1] = "done"
            /\ resp'[1].error = "validation_error"
            /\ otp_records' = otp_records
    ]_vars

\* C32: store failures are reported as such by verify.  When the write of
\* a verify-otp request fails (the attempts increment of a mismatch, the
\* consumed update of a match) the answer is database_error or
\* internal_error; success is answered only with consumed = true written,
\* invalid_otp only with the increment written.
C32_StoreFailures ==
    [][\A p \in Procs :
        (pc[p] \in {"verify_increment", "verify_consume"} /\ pc'[p] = "done") =>
            LET rec == recs[p][1] IN
            /\ faults' # faults =>
                    resp'[p].error \in {"database_error", "internal_error"}
            /\ resp'[p].status = "success" =>
                    \E r \in otp_records' : r.id = rec.id /\ r.consumed
            /\ resp'[p].error = "invalid_otp" =>
                    \E r \in otp_records' : r.id = rec.id /\ r.attempts = rec.attempts + 1
    ]_vars

\* C33: no authentication bypass.  POST /auth/login answers success only
\* when the users table holds a row with the given e-mail; for an e-mail
\* without a row no password makes login succeed.
C33_NoBypass ==
    [][\A p \in Procs :
        (pc[p] = "idle" /\ pc'[p] = "done" /\ req'[p].op = "login"
            /\ resp'[p].status = "ok") =>
                UsersOf(users, req'[p].contact) # {}
    ]_vars

\* a step of p's verify-otp request: its select or one of its writes
VerifySteps(p) ==
    /\ pc[p] \in {"idle", "verify_increment", "verify_consume"}
    /\ pc'[p] # pc[p]
    /\ req'[p].op = "verify"

\* C34 as stated: a verify-otp call that answers otp_not_found,
\* otp_already_used, otp_expired or too_many_attempts leaves every OTP
\* record as it is; one that answers invalid_otp changes nothing but the
\* attempts field of the newest record of its contact; no verify call
\* changes a record of another contact or an older record of the same
\* contact.
C34_NewestOnly ==
    [][\A p \in Procs :
        VerifySteps(p) =>
            /\ { r.id : r \in otp_records' } = { r.id : r \in otp_records }
            /\ \A r \in otp_records \ otp_records' :
                    /\ r.contact = req'[p].contact
                    /\ Older(otp_records', r) = RecordsOf(otp_records', r.contact)
                            \ {r2 \in otp_records' : r2.created_at = r.created_at}
            /\ (Answers(p) /\ resp'[p].error \in {"otp_not_found", "otp_already_used",
                                                  "otp_expired", "too_many_attempts"}) =>
                    otp_records' = otp_records
            /\ (Answers(p) /\ resp'[p].error = "invalid_otp") =>
                    \A r \in otp_records \ otp_records' :
                        \E n \in 0 .. MAX_OTP_ATTEMPTS + 1 :
                            [r EXCEPT !.attempts = n] \in otp_records'
    ]_vars

\* C34: a failed verification reads only, but for a mismatch.  Under any
\* interleaving of requests: the record a verify-otp call reads is one
\* with the greatest created_at of its contact at the time of the select;
\* a call that answers otp_not_found, otp_already_used, otp_expired or
\* too_many_attempts leaves every OTP record as it is; one that answers
\* invalid_otp changes nothing but the attempts field of the record it
\* read; no verify call changes a record other than the one it read, hence
\* none of another contact.
C34_FailedVerifyFrame ==
    [][\A p \in Procs :
        /\ (Fetches(p) /\ Len(recs'[p]) = 1) =>
                /\ recs'[p][1] \in RecordsOf(otp_records, req'[p].contact)
                /\ \A r \in RecordsOf(otp_records, req'[p].contact) :
                        r.created_at <= recs'[p][1].created_at
        /\ VerifySteps(p) =>
            /\ { r.id : r \in otp_records' } = { r.id : r \in otp_records }
            /\ \A r \in otp_records \ otp_records' :
                    /\ Len(recs[p]) = 1
                    /\ r.id = recs[p][1].id
                    /\ r.contact = req'[p].contact
            /\ (Answers(p) /\ resp'[p].error \in {"otp_not_found", "otp_already_used",
                                                  "otp_expired", "too_many_attempts"}) =>
                    otp_records' = otp_records
            /\ (Answers(p) /\ resp'[p].error = "invalid_otp") =>
                    \A r \in otp_records \ otp_records' :
                        \E n \in 0 .. MAX_OTP_ATTEMPTS + 1 :
                            [r EXCEPT !.attempts = n] \in otp_records'
    ]_vars

\* a wrong code was counted against the record the call had read while a
\* later record of the contact was already stored
C34_Witness ==
    \E p \in Procs :
        /\ VerifyDone(p)
        /\ resp[p].error = "invalid_otp"
        /\ Len(recs[p]) = 1
        /\ \E r \in otp_records :
                /\ r.id = recs[p][1].id
                /\ r.attempts = recs[p][1].attempts + 1
                /\ \E r2 \in RecordsOf(otp_records, r.contact) :
                        r2.created_at > r.created_at

\* C35: guess bound.  Under any interleaving of verify-otp requests, at
\* most MAX_OTP_ATTEMPTS wrong candidate codes are ever compared against
\* the hash of one record: the requests answered invalid_otp for a record
\* never number more than 5.
C35_GuessBound ==
    \A id \in Ids : invalidResp[id] <= MAX_OTP_ATTEMPTS

\* p's request-otp has been answered database_error or internal_error
IssuanceFailed(p) ==
    /\ pc[p] = "done"
    /\ req[p].op = "request"
    /\ resp[p].error \in {"database_error", "internal_error"}

\* C36 as stated: when request-otp answers database_error or
\* internal_error, the set of OTP records of the contact is the same as
\* before the request.
C36_StoreUnchanged ==
    \A p \in Procs :
        IssuanceFailed(p) => RecordsOf(otp_records, req[p].contact) = req[p].before

\* C36: failed issuance.  With one request at a time, when request-otp
\* answers database_error or internal_error no record was added and every
\* record of the contact that has not expired is as it was; records that
\* had expired may be gone, all of them or none.  The newest record is the
\* same as before, or it had expired (a verify-otp would have answered
\* otp_already_used or otp_expired) and the contact has no record left
\* (otp_not_found).
C36_FailedIssuance ==
    \A p \in Procs :
        IssuanceFailed(p) =>
            LET c == req[p].contact
                stored == RecordsOf(otp_records, c)
            IN  /\ stored \subseteq req[p].before
                /\ \A r \in req[p].before \ stored : r.expires_at < now
                /\ \A r \in req[p].before :
                        (\A r2 \in req[p].before : r2.created_at <= r.created_at) =>
                            \/ r \in stored
                            \/ /\ stored = {}
                               /\ \/ r.consumed
                                  \/ now > r.expires_at

\* the clean-up removed the expired record and then the insert failed
C36_Witness ==
    \E p \in Procs :
        /\ IssuanceFailed(p)
        /\ req[p].before # {}
        /\ RecordsOf(otp_records, req[p].contact) = {}

\* the page has verified the code of its e-mail (the record is consumed),
\* the signup that followed failed, and the OTP form is there to be
\* submitted again
VerifiedNoAccount ==
    /\ currentStep = 2
    /\ verifyPending = "no"
    /\ \E r \in RecordsOf(otp_records, registrationData) : r.consumed
    /\ UsersOf(users, registrationData) = {}

\* the cells hold the code that was verified
SameCode ==
    \E r \in RecordsOf(otp_records, registrationData) :
        r.consumed /\ Matches(getOTPCode(otpDigits), r)

\* C37: registration can always be completed after a verified OTP.  When
\* the OTP was verified and the signup request failed, submitting the OTP
\* form again and again with the same code leads to the account being
\* created.
C37_Completion ==
    []((VerifiedNoAccount /\ []SameCode) => <>(UsersOf(users, registrationData) # {}))

====
